---- MODULE Spec2Model ----
(***************************************************************************)
(* A model of the heuristic scoring core of twitter_agent:                 *)
(*   utils/virality.py          ViralityScorer                             *)
(*   analysis/profile_health.py score_profile_health                       *)
(*   utils/analytics.py         AnalyticsProcessor                         *)
(*                                                                         *)
(* Texts are TLA+ strings and are scanned character by character, the way  *)
(* the regular expressions of the source scan them (ASCII input).          *)
(* Python floats are fixed point numbers: the integer n stands for         *)
(* n / Scale; a division rounds down by less than 1 / Scale.               *)
(***************************************************************************)
EXTENDS Integers, Sequences, FiniteSets, TLC

Scale == 1000 * 1260

Min(a, b) == IF a <= b THEN a ELSE b

Max(a, b) == IF a >= b THEN a ELSE b

Abs(a) == IF a < 0 THEN -a ELSE a

\* n / d as a fixed point number
Ratio(n, d) == (n * Scale) \div d

\* a decimal literal of the source: Dec(45, 100) is 0.45
Dec(n, d) == (n * Scale) \div d

\* Python's round(x, 1) of a fixed point number: the nearest tenth, an exact
\* tie going to the even tenth
Round1(x) ==
  LET unit == Scale \div 10
      q == x \div unit
      r == x % unit
  IN  IF 2 * r < unit THEN q * unit
      ELSE IF 2 * r > unit THEN (q + 1) * unit
      ELSE IF q % 2 = 0 THEN q * unit ELSE (q + 1) * unit

\* round(x, 1) of the float computed for x: the nearest tenth; when x lies
\* exactly between two tenths the rounding error of the float decides, so both
\* tenths are possible
Round1Float(x) ==
  IF 2 * (x % (Scale \div 10)) = Scale \div 10
  THEN {(x \div (Scale \div 10)) * (Scale \div 10),
        (x \div (Scale \div 10) + 1) * (Scale \div 10)}
  ELSE {Round1(x)}

(***************************************************************************)
(* Characters and strings                                                  *)
(***************************************************************************)
UpperLetters == "ABCDEFGHIJKLMNOPQRSTUVWXYZ"

LowerLetters == "abcdefghijklmnopqrstuvwxyz"

Digits == "0123456789"

CharsOf(s) == {SubSeq(s, i, i) : i \in 1..Len(s)}

UpperSet == CharsOf(UpperLetters)

LowerSet == CharsOf(LowerLetters)

DigitSet == CharsOf(Digits)

\* \w of the re module on ASCII text
WordSet == UpperSet \cup LowerSet \cup DigitSet \cup {"_"}

\* the characters str.strip() removes
SpaceSet == {" ", "\n", "\t", "\r"}

Char(s, i) == SubSeq(s, i, i)

IsWordChar(c) == c \in WordSet

IsSpace(c) == c \in SpaceSet

IsDigit(c) == c \in DigitSet

\* str.lower() of one character
LowerChar(c) ==
  IF c \in UpperSet
  THEN LET i == CHOOSE j \in 1..26 : Char(UpperLetters, j) = c
       IN  Char(LowerLetters, i)
  ELSE c

RECURSIVE LowerRange(_, _, _)
LowerRange(s, lo, hi) ==
  IF lo > hi THEN ""
  ELSE IF lo = hi THEN LowerChar(Char(s, lo))
  ELSE LET mid == (lo + hi) \div 2
       IN  LowerRange(s, lo, mid) \o LowerRange(s, mid + 1, hi)

\* str.lower()
Lower(s) == LowerRange(s, 1, Len(s))

\* str.strip()
Strip(s) ==
  LET keep == {i \in 1..Len(s) : ~IsSpace(Char(s, i))}
  IN  IF keep = {} THEN ""
      ELSE LET lo == CHOOSE i \in keep : \A j \in keep : i <= j
               hi == CHOOSE i \in keep : \A j \in keep : i >= j
           IN  SubSeq(s, lo, hi)

\* str.count(c) for a single character c
CountChar(s, c) == Cardinality({i \in 1..Len(s) : Char(s, i) = c})

\* k in s
Contains(s, k) ==
  \E i \in 1..(Len(s) - Len(k) + 1) : SubSeq(s, i, i + Len(k) - 1) = k

\* str.startswith(k)
StartsWith(s, k) == Len(s) >= Len(k) /\ SubSeq(s, 1, Len(k)) = k

\* re.search(r"\bk\b", s) for a literal k that starts and ends with a word
\* character
ContainsWord(s, k) ==
  \E i \in 1..(Len(s) - Len(k) + 1) :
    /\ SubSeq(s, i, i + Len(k) - 1) = k
    /\ (i = 1 \/ ~IsWordChar(Char(s, i - 1)))
    /\ (i + Len(k) > Len(s) \/ ~IsWordChar(Char(s, i + Len(k))))

\* a class of characters: those of a set, or those outside it
OneOf(chars) == [chars |-> chars, inside |-> TRUE]

NoneOf(chars) == [chars |-> chars, inside |-> FALSE]

InClass(c, class) == (c \in class.chars) = class.inside

\* the start positions of the maximal runs of characters of a class
RunStarts(s, class) ==
  {i \in 1..Len(s) :
     InClass(Char(s, i), class) /\ (i = 1 \/ ~InClass(Char(s, i - 1), class))}

\* the end of the run that starts at i
RunEnd(s, i, class) ==
  LET stops == {j \in i..Len(s) :
                  j = Len(s) \/ ~InClass(Char(s, j + 1), class)}
  IN  CHOOSE j \in stops : \A k \in stops : j <= k

\* the maximal runs of characters of a class, in order
Runs(s, class) ==
  LET starts == RunStarts(s, class)
      nth(k) == CHOOSE i \in starts : Cardinality({j \in starts : j <= i}) = k
  IN  [k \in 1..Cardinality(starts) |->
         SubSeq(s, nth(k), RunEnd(s, nth(k), class))]

\* re.findall(r"\b\w+\b", s)
Words(s) == Runs(s, OneOf(WordSet))

\* len(re.findall(r"\b\w+\b", s))
WordCount(s) == Cardinality(RunStarts(s, OneOf(WordSet)))

RECURSIVE SumSeq(_)
SumSeq(q) == IF q = <<>> THEN 0 ELSE q[1] + SumSeq(Tail(q))

RECURSIVE Flatten(_)
Flatten(qs) == IF qs = <<>> THEN <<>> ELSE qs[1] \o Flatten(Tail(qs))

\* list(dict.fromkeys(q)): the first occurrence of each element, in order
RECURSIVE Dedup(_)
Dedup(q) ==
  IF q = <<>> THEN <<>>
  ELSE LET front == Dedup(SubSeq(q, 1, Len(q) - 1))
           last == q[Len(q)]
       IN  IF \E i \in 1..Len(front) : front[i] = last THEN front
           ELSE Append(front, last)

\* q[:n]
Take(q, n) == SubSeq(q, 1, Min(n, Len(q)))

\* " ".join(q)
RECURSIVE JoinSpace(_)
JoinSpace(q) ==
  IF q = <<>> THEN ""
  ELSE IF Len(q) = 1 THEN q[1]
  ELSE q[1] \o " " \o JoinSpace(Tail(q))

Elems(q) == {q[i] : i \in 1..Len(q)}

(***************************************************************************)
(* models/schemas.py: ContentType                                          *)
(***************************************************************************)
TWEET == "tweet"

THREAD == "thread"

REPLY == "reply"

QUOTE == "quote"

ContentType == {TWEET, THREAD, REPLY, QUOTE}

(***************************************************************************)
(* utils/virality.py                                                       *)
(***************************************************************************)
\* each pattern is \b<literal>\b
ENGAGEMENT_BAIT_PATTERNS ==
  <<"rt if", "like if", "retweet if", "share if", "follow me",
    "free giveaway", "airdrop", "dm me", "subscribe">>

SHARE_KEYWORDS ==
  <<"framework", "checklist", "playbook", "lessons", "mistake", "mistakes",
    "rules", "steps", "ways", "principles", "guide", "template", "how to",
    "counterintuitive", "unpopular", "truth">>

REPLY_KEYWORDS ==
  <<"thoughts", "agree", "disagree", "anyone else", "curious", "hot take",
    "what do you think">>

CLICK_KEYWORDS ==
  <<"link", "full", "read", "guide", "template", "resource", "download",
    "demo">>

HOOK_KEYWORDS ==
  <<"here's", "nobody", "stop", "hot take", "wild", "truth", "mistake",
    "counterintuitive", "unpopular", "the real", "what nobody",
    "this is why", "changed how i">>

\* the alternatives of r"\b(?:spam|giveaway|free money|pump)\b"
SPAM_WORDS == <<"spam", "giveaway", "free money", "pump">>

\* a dict with no key
EmptyDict == [k \in {} |-> 0]

ViralityResult(s, c, n) == [score |-> s, components |-> c, notes |-> n]

\* components.get(key, 0.0)
Get0(components, key) ==
  IF key \in DOMAIN components THEN components[key] ELSE 0

\* a faulty variant: the weighted sum without the clamp to [0, 100]
_aggregate_score_unclamped(components) ==
    20 * Get0(components, "reply_potential")
  + 25 * Get0(components, "share_potential")
  + 10 * Get0(components, "click_potential")
  + 25 * Get0(components, "dwell_potential")
  + 20 * Get0(components, "clarity")
  - Get0(components, "negative_risk") * 20

\* the weighted sum of the components minus the risk penalty, within [0, 100];
\* positive * 100.0 is computed in one step: the weights are in hundredths
_aggregate_score(components) ==
  LET positive_x100 ==
          20 * Get0(components, "reply_potential")
        + 25 * Get0(components, "share_potential")
        + 10 * Get0(components, "click_potential")
        + 25 * Get0(components, "dwell_potential")
        + 20 * Get0(components, "clarity")
      penalty == Get0(components, "negative_risk") * 20
  IN  Max(0, Min(100 * Scale, positive_x100 - penalty))

\* a faulty variant: the ideal band of a tweet whatever the content type
_length_score_tweet_band(length, content_type) ==
  IF length <= 30 \/ length >= 280 THEN 0
  ELSE IF length < 100 THEN Ratio(length - 30, 70)
  ELSE IF length > 220 THEN Max(0, Ratio(280 - length, 60))
  ELSE Scale

_length_score(length, content_type) ==
  LET ideal_min == IF content_type = REPLY THEN 60
                   ELSE IF content_type = QUOTE THEN 80
                   ELSE IF content_type = THREAD THEN 120
                   ELSE 100
      ideal_max == IF content_type = REPLY THEN 200
                   ELSE IF content_type = QUOTE THEN 200
                   ELSE IF content_type = THREAD THEN 260
                   ELSE 220
      min_value == 30
      max_value == 280
  IN  IF length <= min_value \/ length >= max_value THEN 0
      ELSE IF length < ideal_min
           THEN Ratio(length - min_value, Max(ideal_min - min_value, 1))
      ELSE IF length > ideal_max
           THEN Max(0, Ratio(max_value - length, Max(max_value - ideal_max, 1)))
      ELSE Scale

_clarity_score(avg_sentence_len, length, exclamations) ==
  IF avg_sentence_len <= 0 THEN Dec(5, 10)
  ELSE LET base0 == Scale - Min(Scale, Abs(avg_sentence_len - 14 * Scale) \div 14)
           base1 == IF length > 250 THEN (base0 * 8) \div 10 ELSE base0
           base2 == IF exclamations >= 4 THEN (base1 * 8) \div 10 ELSE base1
       IN  Max(0, Min(Scale, base2))

_has_keywords(text, keywords) ==
  LET lowered == Lower(text)
  IN  \E i \in 1..Len(keywords) : Contains(lowered, keywords[i])

_hook_score(text) ==
  LET words == Words(Lower(text))
      first_words == JoinSpace(Take(words, 12))
  IN  IF first_words = "" THEN 0
      ELSE IF \E i \in 1..Len(HOOK_KEYWORDS) : Contains(first_words, HOOK_KEYWORDS[i])
           THEN Scale
      ELSE Dec(3, 10)

\* the sum of the risk conditions, before the cap
RawRisk(text, hashtags, mentions, exclamations, uppercase_ratio) ==
  LET lowered == Lower(text)
  IN    (IF \E i \in 1..Len(ENGAGEMENT_BAIT_PATTERNS) :
              ContainsWord(lowered, ENGAGEMENT_BAIT_PATTERNS[i])
         THEN Dec(5, 10) ELSE 0)
      + (IF hashtags > 2 THEN Dec(2, 10) ELSE 0)
      + (IF mentions > 2 THEN Dec(2, 10) ELSE 0)
      + (IF exclamations > 3 THEN Dec(1, 10) ELSE 0)
      + (IF uppercase_ratio > Dec(35, 100) THEN Dec(2, 10) ELSE 0)
      + (IF \E i \in 1..Len(SPAM_WORDS) : ContainsWord(lowered, SPAM_WORDS[i])
         THEN Dec(2, 10) ELSE 0)

\* a faulty variant: the risk without the cap at 1.0
_negative_risk_uncapped(text, hashtags, mentions, exclamations, uppercase_ratio) ==
  RawRisk(text, hashtags, mentions, exclamations, uppercase_ratio)

\* min(1.0, risk)
_negative_risk(text, hashtags, mentions, exclamations, uppercase_ratio) ==
  Min(Scale, RawRisk(text, hashtags, mentions, exclamations, uppercase_ratio))

_notes_from_components(reply_potential, share_potential, click_potential, dwell_potential, clarity, negative_risk, length, content_type) ==
     (IF share_potential >= Dec(7, 10) THEN <<"Shareable insight">> ELSE <<>>)
  \o (IF reply_potential >= Dec(7, 10) THEN <<"Strong reply prompt">> ELSE <<>>)
  \o (IF click_potential >= Dec(7, 10) THEN <<"Clear click value">> ELSE <<>>)
  \o (IF dwell_potential >= Dec(7, 10) THEN <<"Good dwell potential">> ELSE <<>>)
  \o (IF clarity < Dec(5, 10) THEN <<"Clarity could be tighter">> ELSE <<>>)
  \o (IF negative_risk >= Dec(5, 10)
      THEN <<"Risk: looks like engagement bait">> ELSE <<>>)
  \o (IF content_type # THREAD
      THEN IF length < 70 THEN <<"May be too short">>
           ELSE IF length > 250 THEN <<"May be too long">>
           ELSE <<>>
      ELSE <<>>)

\* len(re.findall(mark + r"\w+", s)) for a one-character mark outside \w
CountTagged(s, mark) ==
  Cardinality({i \in 1..(Len(s) - 1) :
                 Char(s, i) = mark /\ IsWordChar(Char(s, i + 1))})

NotTerminator == NoneOf({".", "!", "?"})

NotLineBreak == NoneOf({"\n", "\r"})

\* the prefixes of has_list within the ASCII alphabet of the model
LIST_PREFIXES == <<"-", "*", "1.", "1)">>

\* the features _score_text extracts from the stripped text
TextMetrics(cleaned) ==
  LET length == Len(cleaned)
      letters == Cardinality({i \in 1..length :
                                Char(cleaned, i) \in UpperSet \cup LowerSet})
      upper == Cardinality({i \in 1..length : Char(cleaned, i) \in UpperSet})
      pieces == Runs(cleaned, NotTerminator)
      sentences == SelectSeq([i \in DOMAIN pieces |-> Strip(pieces[i])],
                             LAMBDA x : x # "")
      sentence_lengths == [i \in DOMAIN sentences |-> WordCount(sentences[i])]
      lines == Runs(cleaned, NotLineBreak)
      words == Words(cleaned)
  IN  [length |-> length,
       uppercase_ratio |-> IF letters > 0 THEN Ratio(upper, letters) ELSE 0,
       question_marks |-> CountChar(cleaned, "?"),
       exclamations |-> CountChar(cleaned, "!"),
       hashtags |-> CountTagged(cleaned, "#"),
       mentions |-> CountTagged(cleaned, "@"),
       has_link |-> \/ Contains(cleaned, "http://")
                    \/ Contains(cleaned, "https://")
                    \/ Contains(cleaned, "www."),
       avg_sentence_len |-> IF Len(sentence_lengths) > 0
                            THEN Ratio(SumSeq(sentence_lengths),
                                       Len(sentence_lengths))
                            ELSE 0,
       line_breaks |-> CountChar(cleaned, "\n"),
       has_list |-> \E i \in DOMAIN lines : \E j \in DOMAIN LIST_PREFIXES :
                      StartsWith(Strip(lines[i]), LIST_PREFIXES[j]),
       number_count |-> Cardinality({i \in DOMAIN words :
                          \A j \in 1..Len(words[i]) : IsDigit(Char(words[i], j))})]

\* the component scores of a text with features m and the given partial scores
ComponentScores(cleaned, m, length_score, structure_score, hook_score) ==
  [reply_potential |->
     Min(Scale, (IF m.question_marks > 0 THEN Dec(6, 10) ELSE 0)
              + (IF _has_keywords(cleaned, REPLY_KEYWORDS)
                 THEN Dec(4, 10) ELSE 0)),
   share_potential |->
     Min(Scale, (IF m.has_list \/ m.number_count >= 1 THEN Dec(3, 10) ELSE 0)
              + (IF _has_keywords(cleaned, SHARE_KEYWORDS)
                 THEN Dec(4, 10) ELSE 0)
              + (IF hook_score > Dec(4, 10) THEN Dec(3, 10) ELSE 0)),
   click_potential |->
     Min(Scale, (IF _has_keywords(cleaned, CLICK_KEYWORDS)
                 THEN Dec(6, 10) ELSE 0)
              + (IF m.has_link THEN Dec(4, 10) ELSE 0)),
   dwell_potential |->
     Min(Scale, (5 * length_score) \div 10
              + (3 * structure_score) \div 10
              + (2 * hook_score) \div 10),
   clarity |-> _clarity_score(m.avg_sentence_len, m.length, m.exclamations),
   negative_risk |-> _negative_risk(cleaned, m.hashtags, m.mentions,
                                    m.exclamations, m.uppercase_ratio)]

\* the result of _score_text for components c of a text of the given length
ResultOf(c, length, content_type) ==
  ViralityResult(_aggregate_score(c), c,
                 _notes_from_components(c.reply_potential, c.share_potential,
                                        c.click_potential, c.dwell_potential,
                                        c.clarity, c.negative_risk, length,
                                        content_type))

\* _score_text once the text is stripped and found non-empty
ScoreMetrics(cleaned, m, content_type) ==
  ResultOf(ComponentScores(cleaned, m,
             _length_score(m.length, content_type),
             Min(Scale, (IF m.line_breaks >= 1 THEN Dec(4, 10) ELSE 0)
                      + (IF m.has_list THEN Dec(4, 10) ELSE 0)
                      + (IF m.number_count >= 1 THEN Dec(2, 10) ELSE 0)),
             _hook_score(cleaned)),
           m.length, content_type)

ScoreCleaned(cleaned, content_type) ==
  ScoreMetrics(cleaned, TextMetrics(cleaned), content_type)

\* a faulty variant: an empty text reported as "No content to score"
_score_text_no_content(text, content_type) ==
  IF Strip(text) = ""
  THEN ViralityResult(0, EmptyDict, <<"No content to score">>)
  ELSE ScoreCleaned(Strip(text), content_type)

\* the result for one text
_score_text(text, content_type) ==
  IF Strip(text) = ""
  THEN ViralityResult(0, EmptyDict, <<"Empty content">>)
  ELSE ScoreCleaned(Strip(text), content_type)

(***************************************************************************)
(* The texts the scorers are run on                                        *)
(***************************************************************************)
RECURSIVE Repeat(_, _)
Repeat(s, n) == IF n = 0 THEN "" ELSE s \o Repeat(s, n - 1)

\* 27 characters, no keyword of any list
Filler == "lorem ipsum dolor sit amet "

T_EMPTY == ""

T_BLANK == "  \n"

T_PUNCT == "!!!"

T_SHORT == "gm everyone"

T_HERES == "here's why it matters"

T_HOOK == "nobody talks about X enough, here's why..."

T_ASK == "What do you think? Curious about your thoughts"

T_LIST == "3 rules for shipping:\n- write it down\n- cut the scope\n- ship on friday"

T_TAG == "shipping the new build today #buildinpublic"

T_LINK == "full demo and download at https://x.co/a " \o Repeat(Filler, 2)

\* 161 characters: inside every ideal band
T_MID == Strip(Repeat(Filler, 6))

\* 269 characters: beyond 250, short of the hard bound 280
T_LONG == Strip(Repeat(Filler, 10))

\* 296 characters: beyond the hard bound 280
T_HUGE == Strip(Repeat(Filler, 11))

\* every note of a segment at once
T_ALL ==
  "Nobody agrees? Stop. Read the guide. 3 steps. Subscribe now. "
  \o "See https://x.co/a today. " \o Repeat("Lorem ipsum. ", 4)

\* every component at 1.0 and no risk: two sentences of 14 words
T_BEST ==
  "nobody agrees with this hot take so what do you think about it friends?"
  \o "\n- read the full guide in 3 steps at https://xco/a and share it"

\* all six risk conditions
T_RISK == "SUBSCRIBE NOW!!!! FREE GIVEAWAY #WIN #FREE #NOW @A1 @B2 @C3"

Texts ==
  {T_EMPTY, T_BLANK, T_PUNCT, T_SHORT, T_HERES, T_HOOK, T_ASK, T_LIST, T_TAG,
   T_LINK, T_MID, T_LONG, T_HUGE, T_ALL, T_BEST, T_RISK}

\* texts of posts: one hashtag alone, one hashtag and a lone "#", two
\* hashtags without a space between them
T_ONETAG == "#gm"

T_LONETAG == "ship #now, not # later"

T_TWOTAGS == "#build#ship"

PostTexts == {T_SHORT, T_TAG, T_ONETAG, T_LONETAG, T_TWOTAGS}

AllTexts == Texts \cup PostTexts

\* _score_text tabulated over the texts, so that each is scanned once
ScoredTexts == [t \in AllTexts, c \in ContentType |-> _score_text(t, c)]

\* isinstance(content, list): an argument carries its Python type
Str(t) == [kind |-> "str", value |-> t]

List(ts) == [kind |-> "list", value |-> ts]

\* a faulty variant: a string is not wrapped and gives no text
TextsOf_unwrapped(content) ==
  IF content.kind = "list" THEN content.value ELSE <<>>

\* the list score() works on: a string is wrapped into a list of one
TextsOf(content) ==
  IF content.kind = "list" THEN content.value ELSE <<content.value>>

\* a faulty variant: the hook bonus whatever the content type
HookBonus_any_type(content_type, texts, s) ==
  IF texts # <<>> THEN Min(100 * Scale, s + _hook_score(texts[1]) * 6) ELSE s

\* the thread-specific hook bonus
HookBonus(content_type, texts, s) ==
  IF content_type = THREAD /\ texts # <<>>
  THEN Min(100 * Scale, s + _hook_score(texts[1]) * 6)
  ELSE s

\* a faulty variant: the sums are divided by the number of results that have
\* the component, so that an empty segment does not count
MeanComponents_nonempty(per_text_results) ==
  [k \in UNION {DOMAIN per_text_results[i].components :
                  i \in 1..Len(per_text_results)} |->
     SumSeq([i \in 1..Len(per_text_results) |->
               Get0(per_text_results[i].components, k)])
       \div Cardinality({i \in 1..Len(per_text_results) :
                          k \in DOMAIN per_text_results[i].components})]

\* the components of the per-text results, summed key by key and divided by
\* the number of results
MeanComponents(per_text_results) ==
  [k \in UNION {DOMAIN per_text_results[i].components :
                  i \in 1..Len(per_text_results)} |->
     SumSeq([i \in 1..Len(per_text_results) |->
               Get0(per_text_results[i].components, k)])
       \div Len(per_text_results)]

\* the notes of the per-text results: first seen first, no repeats, six at most
UnionNotes(per_text_results) ==
  Take(Dedup(Flatten([i \in 1..Len(per_text_results) |->
                        per_text_results[i].notes])), 6)

\* the "Strong hook" note of a thread
HookNote(content_type, texts, notes) ==
  IF /\ content_type = THREAD
     /\ texts # <<>>
     /\ _hook_score(texts[1]) > Dec(6, 10)
     /\ "Strong hook" \notin Elems(notes)
  THEN <<"Strong hook">> \o notes
  ELSE notes

\* score() from the per-text results on: one result for each value the final
\* round(score, 1) can give
Combine(texts, per_text_results, content_type, components, notes) ==
  IF Len(per_text_results) = 0
  THEN {ViralityResult(0, EmptyDict, <<"No content to score">>)}
  ELSE {ViralityResult(s, components, HookNote(content_type, texts, notes)) :
          s \in Round1Float(HookBonus(content_type, texts,
                                      _aggregate_score(components)))}

ScoreTexts(texts, per_text_results, content_type) ==
  Combine(texts, per_text_results, content_type,
          MeanComponents(per_text_results), UnionNotes(per_text_results))

PerTextResults(texts, content_type) ==
  [i \in 1..Len(texts) |-> ScoredTexts[texts[i], content_type]]

\* the results score() can return
score(content, content_type) ==
  ScoreTexts(TextsOf(content),
             PerTextResults(TextsOf(content), content_type), content_type)

(***************************************************************************)
(* Tweets, user information and voice profiles (models/schemas.py)         *)
(***************************************************************************)
\* an Optional value: <<>> is None, <<v>> is the value v
None == <<>>

Some(v) == <<v>>

IsNone(o) == Len(o) = 0

\* (o or 0) for an Optional[int]
OrZero(o) == IF IsNone(o) THEN 0 ELSE o[1]

\* created_at counts the hours since some midnight; the counts are Optional
Tweet(text, created_at, like_count, retweet_count, reply_count, quote_count, is_reply) ==
  [text |-> text, created_at |-> created_at, like_count |-> like_count,
   retweet_count |-> retweet_count, reply_count |-> reply_count,
   quote_count |-> quote_count, is_reply |-> is_reply]

UserInfo(bio, followers_count) ==
  [bio |-> bio, followers_count |-> followers_count]

VoiceProfile(common_topics, average_tweet_length) ==
  [common_topics |-> common_topics,
   average_tweet_length |-> average_tweet_length]

\* round(x, 2), round(x, 3), round(x, 4) and round(x, 0) of a fixed-point x
RoundTo(x, unit) ==
  LET q == x \div unit
      r == x % unit
  IN  IF 2 * r > unit \/ (2 * r = unit /\ q % 2 = 1)
      THEN (q + 1) * unit
      ELSE q * unit

Round2(x) == RoundTo(x, Scale \div 100)

Round0(x) == RoundTo(x, Scale)

(***************************************************************************)
(* AnalyticsProcessor.analyze_engagement_patterns (utils/analytics.py)     *)
(***************************************************************************)
Likes(t) == OrZero(t.like_count)

Retweets(t) == OrZero(t.retweet_count)

Replies(t) == OrZero(t.reply_count)

Quotes(t) == OrZero(t.quote_count)

total_likes(tweets) == SumSeq([i \in 1..Len(tweets) |-> Likes(tweets[i])])

total_retweets(tweets) ==
  SumSeq([i \in 1..Len(tweets) |-> Retweets(tweets[i])])

total_replies(tweets) ==
  SumSeq([i \in 1..Len(tweets) |-> Replies(tweets[i])])

total_quotes(tweets) == SumSeq([i \in 1..Len(tweets) |-> Quotes(tweets[i])])

HasDate(t) == ~IsNone(t.created_at)

HourOf(t) == t.created_at[1] % 24

\* the hours of the dated tweets, first seen first: the keys of
\* hourly_engagement in insertion order
HoursSeen(tweets) == Dedup([i \in 1..Len(SelectSeq(tweets, HasDate)) |->
                              HourOf(SelectSeq(tweets, HasDate)[i])])

\* hourly_engagement[hour]: likes + 2 * retweets and count of the hour
HourGain(tweets, hour) ==
  SumSeq([i \in 1..Len(tweets) |->
            IF HasDate(tweets[i]) /\ HourOf(tweets[i]) = hour
            THEN Likes(tweets[i]) + 2 * Retweets(tweets[i]) ELSE 0])

HourCount(tweets, hour) ==
  Cardinality({i \in 1..Len(tweets) :
                 HasDate(tweets[i]) /\ HourOf(tweets[i]) = hour})

\* key(h1) > key(h2) for the sort of the hours: gain / max(count, 1)
HourBefore(tweets, hours, i, j) ==
  LET gi == HourGain(tweets, hours[i]) * Max(HourCount(tweets, hours[j]), 1)
      gj == HourGain(tweets, hours[j]) * Max(HourCount(tweets, hours[i]), 1)
  IN  gi > gj \/ (gi = gj /\ i < j)

\* sorted(..., reverse=True)[:3]: by decreasing key, equal keys in insertion
\* order (the sort is stable)
BestHours(tweets, hours) ==
  Take([k \in 1..Len(hours) |->
          hours[CHOOSE i \in 1..Len(hours) :
                  Cardinality({j \in 1..Len(hours) :
                                 j # i /\ HourBefore(tweets, hours, j, i)})
                    = k - 1]], 3)

TextLen(t) == Len(t.text)

\* sum(len(t.text) for t in tweets)
total_length(tweets) == SumSeq([i \in 1..Len(tweets) |-> TextLen(tweets[i])])

\* the dictionary returned; <<>> for no tweets.  Only the keys read by
\* score_profile_health are kept.
analyze_engagement_patterns(tweets) ==
  IF Len(tweets) = 0 THEN <<>>
  ELSE <<[average_metrics |->
            [likes |-> Round2(Ratio(total_likes(tweets), Len(tweets))),
             retweets |-> Round2(Ratio(total_retweets(tweets), Len(tweets))),
             replies |-> Round2(Ratio(total_replies(tweets), Len(tweets))),
             quotes |-> Round2(Ratio(total_quotes(tweets), Len(tweets)))],
          best_posting_hours |-> BestHours(tweets, HoursSeen(tweets)),
          average_tweet_length |->
            Round0(Ratio(total_length(tweets), Len(tweets)))]>>

(***************************************************************************)
(* Profile health (analysis/profile_health.py)                             *)
(***************************************************************************)
STOPWORDS ==
  {"the", "and", "for", "that", "with", "this", "you", "your", "are", "was",
   "were", "but", "not", "have", "has", "had", "its", "it's", "they", "them",
   "from", "about", "into", "over", "after", "before", "just", "than", "then",
   "what", "when", "where", "which", "who", "why", "how", "also", "their",
   "there", "here", "because", "been", "being", "i", "im", "i'm", "we", "our",
   "us", "my", "me"}

_score_engagement_rate(rate) ==
  IF rate >= Dec(2, 100) THEN Scale
  ELSE IF rate >= Dec(1, 100) THEN Dec(8, 10)
  ELSE IF rate >= Dec(5, 1000) THEN Dec(6, 10)
  ELSE IF rate >= Dec(2, 1000) THEN Dec(45, 100)
  ELSE IF rate >= Dec(1, 1000) THEN Dec(3, 10)
  ELSE Dec(2, 10)

\* the cadence score of a posts_per_week rate
CadenceOfRate(posts_per_week) ==
  IF posts_per_week < Scale THEN Dec(2, 10)
  ELSE IF posts_per_week < 3 * Scale
       THEN Dec(2, 10) + ((posts_per_week - Scale) * 2) \div 10
  ELSE IF posts_per_week <= 10 * Scale THEN Dec(9, 10)
  ELSE IF posts_per_week <= 20 * Scale THEN Dec(7, 10)
  ELSE Dec(5, 10)

\* (latest - earliest).days of the dated tweets, created_at counting hours
SpanDays(dated) ==
  LET stamps == {dated[i].created_at[1] : i \in 1..Len(dated)}
      latest == CHOOSE x \in stamps : \A y \in stamps : x >= y
      earliest == CHOOSE x \in stamps : \A y \in stamps : x <= y
  IN  (latest - earliest) \div 24

PostsPerWeek(dated) == Ratio(Len(dated) * 7, Max(SpanDays(dated), 1))

\* a faulty variant: one dated post is enough for a rate
CadenceOfDated_single(dated) ==
  IF Len(dated) < 1 THEN <<Dec(4, 10), 0>>
  ELSE <<CadenceOfRate(PostsPerWeek(dated)), PostsPerWeek(dated)>>

\* the pair (score, posts_per_week)
CadenceOfDated(dated) ==
  IF Len(dated) < 2 THEN <<Dec(4, 10), 0>>
  ELSE <<CadenceOfRate(PostsPerWeek(dated)), PostsPerWeek(dated)>>

_score_cadence(tweets) == CadenceOfDated(SelectSeq(tweets, HasDate))

_get_average_length(voice_profile, patterns, tweets) ==
  IF ~IsNone(voice_profile) /\ OrZero(voice_profile[1].average_tweet_length) # 0
  THEN voice_profile[1].average_tweet_length[1] * Scale
  ELSE IF ~IsNone(patterns) /\ patterns[1].average_tweet_length # 0
  THEN patterns[1].average_tweet_length
  ELSE IF Len(tweets) > 0
  THEN Ratio(total_length(tweets), Len(tweets))
  ELSE 0

_score_length(avg_length) ==
  IF avg_length <= 0 THEN Dec(4, 10)
  ELSE IF avg_length < 60 * Scale THEN Dec(4, 10)
  ELSE IF avg_length < 90 * Scale THEN Dec(6, 10)
  ELSE IF avg_length <= 200 * Scale THEN Dec(95, 100)
  ELSE IF avg_length <= 240 * Scale THEN Dec(7, 10)
  ELSE Dec(4, 10)

IsReply(t) == t.is_reply

_reply_ratio(tweets) ==
  IF Len(tweets) = 0 THEN 0
  ELSE Ratio(Len(SelectSeq(tweets, IsReply)), Len(tweets))

\* max(0.2, 1.0 - distance / 0.45)
_score_reply_ratio(ratio) ==
  Max(Dec(2, 10), Scale - (Abs(ratio - Dec(45, 100)) * 100) \div 45)

HashtagCount(t) == CountTagged(t.text, "#")

\* sum(counts)
total_hashtags(tweets) ==
  SumSeq([i \in 1..Len(tweets) |-> HashtagCount(tweets[i])])

_average_hashtags(tweets) ==
  IF Len(tweets) = 0 THEN 0
  ELSE Ratio(total_hashtags(tweets), Len(tweets))

\* a faulty variant: the 0.85 band leaves out the rate 1.0
_score_hashtags_strict(rate) ==
  IF rate <= Dec(3, 10) THEN Scale
  ELSE IF rate < Scale THEN Dec(85, 100)
  ELSE IF rate <= 2 * Scale THEN Dec(6, 10)
  ELSE IF rate <= 3 * Scale THEN Dec(4, 10)
  ELSE Dec(2, 10)

_score_hashtags(rate) ==
  IF rate <= Dec(3, 10) THEN Scale
  ELSE IF rate <= Scale THEN Dec(85, 100)
  ELSE IF rate <= 2 * Scale THEN Dec(6, 10)
  ELSE IF rate <= 3 * Scale THEN Dec(4, 10)
  ELSE Dec(2, 10)

\* re.search(r"https?://|www\.", t.text)
HasLink(t) ==
  \/ Contains(t.text, "http://")
  \/ Contains(t.text, "https://")
  \/ Contains(t.text, "www.")

_average_links(tweets) ==
  IF Len(tweets) = 0 THEN 0
  ELSE Ratio(Len(SelectSeq(tweets, HasLink)), Len(tweets))

_score_links(rate) ==
  IF Dec(5, 100) <= rate /\ rate <= Dec(2, 10) THEN Dec(9, 10)
  ELSE IF rate < Dec(5, 100) THEN Dec(6, 10)
  ELSE IF rate <= Dec(35, 100) THEN Dec(7, 10)
  ELSE Dec(4, 10)

NotSpace == NoneOf(SpaceSet)

\* where re.sub(r"https?://\S+", ...) can match: the scheme followed by at
\* least one character that is not white space
UrlAt(s, i) ==
  \/ /\ i + 7 <= Len(s)
     /\ SubSeq(s, i, i + 6) = "http://"
     /\ ~IsSpace(Char(s, i + 7))
  \/ /\ i + 8 <= Len(s)
     /\ SubSeq(s, i, i + 7) = "https://"
     /\ ~IsSpace(Char(s, i + 8))

\* re.sub(r"https?://\S+", "", s): the leftmost match runs to the next white
\* space, and the search goes on after it
RECURSIVE RemoveUrls(_)
RemoveUrls(s) ==
  LET starts == {i \in 1..Len(s) : UrlAt(s, i)}
  IN  IF starts = {} THEN s
      ELSE LET first == CHOOSE i \in starts : \A j \in starts : i <= j
           IN  SubSeq(s, 1, first - 1)
                 \o RemoveUrls(SubSeq(s, RunEnd(s, first, NotSpace) + 1, Len(s)))

\* a match of \b[a-z]{4,}\b is a whole word of at least four letters a-z
IsTopicWord(w) ==
  Len(w) >= 4 /\ \A i \in 1..Len(w) : Char(w, i) \in LowerSet

IsTopicToken(w) == IsTopicWord(w) /\ w \notin STOPWORDS

\* the tokens one tweet text adds
TopicTokens(text) == SelectSeq(Words(RemoveUrls(Lower(text))), IsTopicToken)

\* sum(count for _, count in counts.most_common(n)): the n largest counts
RECURSIVE TopSum(_, _, _)
TopSum(tokens, keys, n) ==
  IF n = 0 \/ keys = {} THEN 0
  ELSE LET Count(k) == Cardinality({i \in 1..Len(tokens) : tokens[i] = k})
           best == CHOOSE k \in keys : \A j \in keys : Count(k) >= Count(j)
       IN  Count(best) + TopSum(tokens, keys \ {best}, n - 1)

\* the score of a concentration
FocusOfConcentration(concentration) ==
  IF concentration >= Dec(18, 100) THEN Scale
  ELSE IF concentration >= Dec(12, 100) THEN Dec(8, 10)
  ELSE IF concentration >= Dec(8, 100) THEN Dec(6, 10)
  ELSE IF concentration >= Dec(5, 100) THEN Dec(4, 10)
  ELSE Dec(2, 10)

\* the pair (score, metric) from the tokens of the tweets
FocusOfTokens(tokens) ==
  IF Len(tokens) = 0 THEN <<Dec(4, 10), 0>>
  ELSE <<FocusOfConcentration(
           Ratio(TopSum(tokens, Elems(tokens), 5), Max(Len(tokens), 1))),
         Ratio(TopSum(tokens, Elems(tokens), 5), Max(Len(tokens), 1))>>

\* the pair (score, metric) from the number of topics of the voice profile
FocusOfTopicCount(topic_count) ==
  IF 3 <= topic_count /\ topic_count <= 7 THEN <<Scale, topic_count * Scale>>
  ELSE IF topic_count <= 2 THEN <<Dec(5, 10), topic_count * Scale>>
  ELSE IF topic_count <= 12 THEN <<Dec(7, 10), topic_count * Scale>>
  ELSE <<Dec(4, 10), topic_count * Scale>>

\* TopicTokens tabulated over the texts, so that each is scanned once
TopicTokensOf == [t \in AllTexts |-> TopicTokens(t)]

_score_topic_focus(tweets, voice_profile) ==
  IF ~IsNone(voice_profile) /\ Len(voice_profile[1].common_topics) > 0
  THEN FocusOfTopicCount(Len(voice_profile[1].common_topics))
  ELSE FocusOfTokens(Flatten([i \in 1..Len(tweets) |->
                                TopicTokensOf[tweets[i].text]]))

\* the values scorer.score(tweet.text, content_type).score / 100.0 can take
TweetVirality(t) ==
  {r.score \div 100 :
     r \in score(Str(t.text), IF t.is_reply THEN REPLY ELSE TWEET)}

\* the sums of one value from each set of the sequence
RECURSIVE SumChoices(_)
SumChoices(sets) ==
  IF sets = <<>> THEN {0}
  ELSE {x + y : x \in sets[1], y \in SumChoices(Tail(sets))}

\* a faulty variant: 0 instead of the default 0.4 for no tweets
_average_virality_no_default(tweets) ==
  IF Len(tweets) = 0 THEN {0}
  ELSE {s \div Len(Take(tweets, 20)) :
          s \in SumChoices([i \in 1..Len(Take(tweets, 20)) |->
                              TweetVirality(tweets[i])])}

\* the values _average_virality can return
_average_virality(tweets) ==
  IF Len(tweets) = 0 THEN {Dec(4, 10)}
  ELSE {s \div Len(Take(tweets, 20)) :
          s \in SumChoices([i \in 1..Len(Take(tweets, 20)) |->
                              TweetVirality(tweets[i])])}

_score_profile_completeness(user_info) ==
  IF IsNone(user_info) THEN Dec(5, 10)
  ELSE LET bio == IF IsNone(user_info[1].bio) THEN ""
                  ELSE Strip(user_info[1].bio[1])
       IN  IF Len(bio) >= 80 THEN Scale
           ELSE IF Len(bio) >= 20 THEN Dec(7, 10)
           ELSE IF Len(bio) > 0 THEN Dec(5, 10)
           ELSE Dec(3, 10)

\* the weights of _weighted_overall, in hundredths and in the order of the dict
WEIGHTS ==
  <<[key |-> "engagement_quality", weight |-> 25],
    [key |-> "shareability", weight |-> 20],
    [key |-> "cadence", weight |-> 15],
    [key |-> "topic_focus", weight |-> 12],
    [key |-> "format_fit", weight |-> 10],
    [key |-> "conversation_balance", weight |-> 8],
    [key |-> "hashtag_hygiene", weight |-> 5],
    [key |-> "link_balance", weight |-> 3],
    [key |-> "profile_completeness", weight |-> 2]>>

\* scores.get(key, default)
GetOr(scores, key, default) ==
  IF key \in DOMAIN scores THEN scores[key] ELSE default

\* sum(weights.values()), in hundredths
WeightTotal == SumSeq([i \in 1..Len(WEIGHTS) |-> WEIGHTS[i].weight])

\* sum(scores.get(key, 0.5) * weight ...), in hundredths
WeightedSum(scores) ==
  SumSeq([i \in 1..Len(WEIGHTS) |->
            GetOr(scores, WEIGHTS[i].key, Dec(5, 10)) * WEIGHTS[i].weight])

\* (x / total) * 100 for x and total in hundredths
Percent(x, total) == (x \div total) * 100 + ((x % total) * 100) \div total

\* a faulty variant: the overall score without round(..., 1)
_weighted_overall_unrounded(scores) ==
  {Percent(WeightedSum(scores), WeightTotal)}

\* the values _weighted_overall can return
_weighted_overall(scores) ==
  Round1Float(Percent(WeightedSum(scores), WeightTotal))

\* the checks of _build_recommendations in their order: the sub-score read,
\* the title and the priority of the record added
RECOMMENDATIONS ==
  <<[key |-> "topic_focus", title |-> "Sharpen topical focus",
     priority |-> "high"],
    [key |-> "shareability", title |-> "Increase shareable formats",
     priority |-> "high"],
    [key |-> "engagement_quality", title |-> "Strengthen engagement hooks",
     priority |-> "high"],
    [key |-> "cadence", title |-> "Stabilize posting cadence",
     priority |-> "medium"],
    [key |-> "conversation_balance", title |-> "Balance replies and originals",
     priority |-> "medium"],
    [key |-> "format_fit", title |-> "Tighten post length",
     priority |-> "medium"],
    [key |-> "hashtag_hygiene", title |-> "Reduce hashtag usage",
     priority |-> "low"],
    [key |-> "link_balance", title |-> "Increase standalone value",
     priority |-> "low"],
    [key |-> "profile_completeness", title |-> "Improve profile clarity",
     priority |-> "low"]>>

\* the records added, before the cut to six: title and priority of each (why
\* and actions are fixed texts that go with the title)
AddedRecommendations(scores) ==
  LET Low(r) == GetOr(scores, r.key, Scale) < Dec(6, 10)
      added == SelectSeq(RECOMMENDATIONS, Low)
  IN  [i \in 1..Len(added) |->
         [title |-> added[i].title, priority |-> added[i].priority]]

\* a faulty variant: the records without the cut to six
_build_recommendations_uncut(scores, metrics) == AddedRecommendations(scores)

\* a faulty variant: the records cut to five
_build_recommendations_five(scores, metrics) ==
  Take(AddedRecommendations(scores), 5)

\* recommendations[:6]
_build_recommendations(scores, metrics) == Take(AddedRecommendations(scores), 6)

\* ", ".join(str(h) + ":00" for h in hours)
RECURSIVE JoinHours(_)
JoinHours(hours) ==
  IF hours = <<>> THEN ""
  ELSE IF Len(hours) = 1 THEN ToString(hours[1]) \o ":00"
  ELSE ToString(hours[1]) \o ":00, " \o JoinHours(Tail(hours))

\* a faulty variant: the hours step is placed before the cadence step
_build_steps_hours_first(scores, metrics) ==
  Take(
    (IF Len(metrics.best_posting_hours) > 0
     THEN <<"Post during your best hours: "
              \o JoinHours(Take(metrics.best_posting_hours, 3)) \o ".">>
     ELSE <<>>)
    \o (IF GetOr(scores, "cadence", Scale) < Dec(7, 10)
        THEN <<"Plan a 2-week schedule of 3-7 posts per week.">> ELSE <<>>)
    \o (IF GetOr(scores, "shareability", Scale) < Dec(7, 10)
        THEN <<"Publish one framework/list post and one strong-opinion post weekly.">>
        ELSE <<>>)
    \o (IF GetOr(scores, "conversation_balance", Scale) < Dec(7, 10)
        THEN <<"Reply to 3-5 posts in your niche each week.">> ELSE <<>>)
    \o (IF GetOr(scores, "topic_focus", Scale) < Dec(7, 10)
        THEN <<"Commit to 2-3 core themes for the next 10 posts.">> ELSE <<>>)
    \o (IF GetOr(scores, "format_fit", Scale) < Dec(7, 10)
        THEN <<"Keep single tweets in the 100-200 character range.">>
        ELSE <<>>),
    6)

\* a faulty variant: the steps of the scores below 0.5 only
_build_steps_below_half(scores, metrics) ==
  Take(
    (IF GetOr(scores, "cadence", Scale) < Dec(5, 10)
     THEN <<"Plan a 2-week schedule of 3-7 posts per week.">> ELSE <<>>)
    \o (IF Len(metrics.best_posting_hours) > 0
        THEN <<"Post during your best hours: "
                 \o JoinHours(Take(metrics.best_posting_hours, 3)) \o ".">>
        ELSE <<>>)
    \o (IF GetOr(scores, "shareability", Scale) < Dec(5, 10)
        THEN <<"Publish one framework/list post and one strong-opinion post weekly.">>
        ELSE <<>>)
    \o (IF GetOr(scores, "conversation_balance", Scale) < Dec(5, 10)
        THEN <<"Reply to 3-5 posts in your niche each week.">> ELSE <<>>)
    \o (IF GetOr(scores, "topic_focus", Scale) < Dec(5, 10)
        THEN <<"Commit to 2-3 core themes for the next 10 posts.">> ELSE <<>>)
    \o (IF GetOr(scores, "format_fit", Scale) < Dec(5, 10)
        THEN <<"Keep single tweets in the 100-200 character range.">>
        ELSE <<>>),
    6)

\* the steps; the en dashes of the source texts are written "-"
_build_steps(scores, metrics) ==
  Take(
    (IF GetOr(scores, "cadence", Scale) < Dec(7, 10)
     THEN <<"Plan a 2-week schedule of 3-7 posts per week.">> ELSE <<>>)
    \o (IF Len(metrics.best_posting_hours) > 0
        THEN <<"Post during your best hours: "
                 \o JoinHours(Take(metrics.best_posting_hours, 3)) \o ".">>
        ELSE <<>>)
    \o (IF GetOr(scores, "shareability", Scale) < Dec(7, 10)
        THEN <<"Publish one framework/list post and one strong-opinion post weekly.">>
        ELSE <<>>)
    \o (IF GetOr(scores, "conversation_balance", Scale) < Dec(7, 10)
        THEN <<"Reply to 3-5 posts in your niche each week.">> ELSE <<>>)
    \o (IF GetOr(scores, "topic_focus", Scale) < Dec(7, 10)
        THEN <<"Commit to 2-3 core themes for the next 10 posts.">> ELSE <<>>)
    \o (IF GetOr(scores, "format_fit", Scale) < Dec(7, 10)
        THEN <<"Keep single tweets in the 100-200 character range.">>
        ELSE <<>>),
    6)

\* user_info.followers_count if user_info else None
FollowersOf(user_info) ==
  IF IsNone(user_info) THEN None ELSE user_info[1].followers_count

\* avg_likes + avg_retweets * 2 + avg_replies + avg_quotes, from the rounded
\* averages of the patterns
AvgEngagement(patterns) ==
  IF IsNone(patterns) THEN 0
  ELSE patterns[1].average_metrics.likes
         + patterns[1].average_metrics.retweets * 2
         + patterns[1].average_metrics.replies
         + patterns[1].average_metrics.quotes

\* avg_engagement / max(float(followers or 1), 1.0)
EngagementRate(avg_engagement, followers) ==
  avg_engagement \div Max(IF OrZero(followers) = 0 THEN 1 ELSE followers[1], 1)

\* the scores dictionary for a shareability value
ScoresWith(tweets, user_info, voice_profile, patterns, virality_score) ==
  [engagement_quality |->
     _score_engagement_rate(
       EngagementRate(AvgEngagement(patterns), FollowersOf(user_info))),
   cadence |-> _score_cadence(tweets)[1],
   topic_focus |-> _score_topic_focus(tweets, voice_profile)[1],
   format_fit |->
     _score_length(_get_average_length(voice_profile, patterns, tweets)),
   conversation_balance |-> _score_reply_ratio(_reply_ratio(tweets)),
   shareability |-> virality_score,
   hashtag_hygiene |-> _score_hashtags(_average_hashtags(tweets)),
   link_balance |-> _score_links(_average_links(tweets)),
   profile_completeness |-> _score_profile_completeness(user_info)]

\* the scores dictionaries the call can build
HealthScores(tweets, user_info, voice_profile, patterns) ==
  {ScoresWith(tweets, user_info, voice_profile, patterns, virality_score) :
     virality_score \in _average_virality(tweets)}

\* the metrics dictionary
HealthMetrics(tweets, user_info, voice_profile, patterns) ==
  [followers |-> OrZero(FollowersOf(user_info)),
   avg_engagement |-> Round2(AvgEngagement(patterns)),
   engagement_rate |->
     RoundTo(EngagementRate(AvgEngagement(patterns), FollowersOf(user_info)),
             Scale \div 10000),
   posts_per_week |-> Round2(_score_cadence(tweets)[2]),
   avg_length |->
     Round1(_get_average_length(voice_profile, patterns, tweets)),
   reply_ratio |-> Round2(_reply_ratio(tweets)),
   hashtag_rate |-> Round2(_average_hashtags(tweets)),
   link_rate |-> Round2(_average_links(tweets)),
   topic_focus |->
     RoundTo(_score_topic_focus(tweets, voice_profile)[2], Scale \div 1000),
   best_posting_hours |->
     IF IsNone(patterns) THEN <<>> ELSE patterns[1].best_posting_hours]

ProfileHealthResult(username, overall_score, scores, metrics, recommendations, steps) ==
  [username |-> username, overall_score |-> overall_score, scores |-> scores,
   metrics |-> metrics, recommendations |-> recommendations, steps |-> steps]

\* score_profile_health once scores and metrics are known: one result for
\* each value _weighted_overall can return
HealthOf(username, scores, metrics) ==
  {ProfileHealthResult(username, overall_score, scores, metrics,
                       _build_recommendations(scores, metrics),
                       _build_steps(scores, metrics)) :
     overall_score \in _weighted_overall(scores)}

\* score_profile_health once the patterns are known
HealthFrom(username, tweets, user_info, voice_profile, patterns) ==
  UNION {HealthOf(username, scores,
                  HealthMetrics(tweets, user_info, voice_profile, patterns)) :
           scores \in HealthScores(tweets, user_info, voice_profile, patterns)}

\* the results score_profile_health can return
score_profile_health(username, tweets, user_info, voice_profile) ==
  HealthFrom(username, tweets, user_info, voice_profile,
             analyze_engagement_patterns(tweets))

(***************************************************************************)
(* ContentGenerator._parse_generated_content                               *)
(* (analysis/content_generator.py)                                         *)
(***************************************************************************)
\* the least element of a non-empty set of numbers
Least(S) == CHOOSE i \in S : \A j \in S : i <= j

\* str.split(sep) for a separator of one or more characters: the leftmost
\* occurrence first, the search going on after it
RECURSIVE Split(_, _)
Split(s, sep) ==
  LET hits == {i \in 1..(Len(s) - Len(sep) + 1) :
                 SubSeq(s, i, i + Len(sep) - 1) = sep}
  IN  IF hits = {} THEN <<s>>
      ELSE <<SubSeq(s, 1, Least(hits) - 1)>>
             \o Split(SubSeq(s, Least(hits) + Len(sep), Len(s)), sep)

\* sep.join(q)
RECURSIVE JoinWith(_, _)
JoinWith(q, sep) ==
  IF q = <<>> THEN ""
  ELSE IF Len(q) = 1 THEN q[1]
  ELSE q[1] \o sep \o JoinWith(Tail(q), sep)

\* str.replace(old, new): the occurrences str.split(old) cuts at
Replace(s, old, new) == JoinWith(Split(s, old), new)

\* [t.strip() for t in q]
StripAll(q) == [i \in 1..Len(q) |-> Strip(q[i])]

IsNonEmpty(t) == t # ""

\* [t for t in q if t]
NonEmpty(q) == SelectSeq(q, IsNonEmpty)

\* any(pattern in line[:6] for pattern in marker_patterns)
has_marker(line) ==
  \E pattern \in {"/", ")", "."} : Contains(SubSeq(line, 1, Min(6, Len(line))), pattern)

\* a stripped, non-empty line that starts a numbered tweet
IsMarkerLine(line) == IsDigit(Char(line, 1)) /\ has_marker(line)

\* a faulty variant: the marker ends at the first space only
marker_end_at_space(line) ==
  LET stops == {i \in 2..Len(line) : Char(line, i) = " "}
  IN  IF stops = {} THEN Len(line) ELSE Least(stops)

\* the number of characters of the line up to and including the first " ",
\* ":" or "-" after its first character; the whole line without one
marker_end(line) ==
  LET stops == {i \in 2..Len(line) : Char(line, i) \in {" ", ":", "-"}}
  IN  IF stops = {} THEN Len(line) ELSE Least(stops)

\* a faulty variant: the marker is kept in the text
tweet_text_with_marker(line) == Strip(line)

\* line[marker_end:].strip()
tweet_text(line) == Strip(SubSeq(line, marker_end(line) + 1, Len(line)))

\* a faulty variant: only the first line of the pending tweet is kept
FlushTweet_first_line(tweets, current_tweet) ==
  IF current_tweet # <<>> THEN Append(tweets, Strip(current_tweet[1])) ELSE tweets

\* if current_tweet: tweets.append(" ".join(current_tweet).strip())
FlushTweet(tweets, current_tweet) ==
  IF current_tweet # <<>>
  THEN Append(tweets, Strip(JoinSpace(current_tweet)))
  ELSE tweets

\* current_tweet after a marker line
StartTweet(line) ==
  IF tweet_text(line) # "" THEN <<tweet_text(line)>> ELSE <<>>

\* the loop over the lines and the flush after it
RECURSIVE ThreadLines(_, _, _)
ThreadLines(lines, tweets, current_tweet) ==
  IF lines = <<>> THEN FlushTweet(tweets, current_tweet)
  ELSE IF Strip(lines[1]) = ""
       THEN ThreadLines(Tail(lines), FlushTweet(tweets, current_tweet), <<>>)
  ELSE IF IsMarkerLine(Strip(lines[1]))
       THEN ThreadLines(Tail(lines), FlushTweet(tweets, current_tweet),
                        StartTweet(Strip(lines[1])))
  ELSE ThreadLines(Tail(lines), tweets, Append(current_tweet, Strip(lines[1])))

\* the tweets of the first pass, the empty ones removed
MarkedTweets(generated_text) ==
  NonEmpty(ThreadLines(Split(generated_text, "\n"), <<>>, <<>>))

\* [p.strip() for p in generated_text.split("\n\n") if p.strip()]
paragraphs(generated_text) == NonEmpty(StripAll(Split(generated_text, "\n\n")))

\* the loop over the sentences and the append after it
RECURSIVE SentenceChunks(_, _, _, _)
SentenceChunks(sentences, chunks, current_chunk, current_length) ==
  IF sentences = <<>>
  THEN IF current_chunk # <<>> THEN Append(chunks, JoinSpace(current_chunk))
       ELSE chunks
  ELSE IF Strip(sentences[1]) = ""
       THEN SentenceChunks(Tail(sentences), chunks, current_chunk, current_length)
  ELSE IF current_length + Len(Strip(sentences[1])) + 1 > 260 /\ current_chunk # <<>>
       THEN SentenceChunks(Tail(sentences),
                           Append(chunks, JoinSpace(current_chunk)),
                           <<Strip(sentences[1])>>, Len(Strip(sentences[1])))
  ELSE SentenceChunks(Tail(sentences), chunks,
                      Append(current_chunk, Strip(sentences[1])),
                      current_length + Len(Strip(sentences[1])) + 1)

\* text.replace(". ", ".\n").split("\n")
sentences(text) == Split(Replace(text, ". ", ".\n"), "\n")

\* the chunks of a text of more than 400 characters, ten at most
SplitLongText(text, tweets) ==
  IF Len(text) > 400 /\ SentenceChunks(sentences(text), <<>>, <<>>, 0) # <<>>
  THEN Take(SentenceChunks(sentences(text), <<>>, <<>>, 0), 10)
  ELSE tweets

\* the smarter splitting when the first pass found fewer than two tweets
SmartSplit(generated_text, tweets) ==
  IF Len(tweets) >= 2 THEN tweets
  ELSE IF Len(paragraphs(generated_text)) > 1 THEN paragraphs(generated_text)
  ELSE SplitLongText(Strip(generated_text), tweets)

\* if not tweets: tweets = [generated_text.strip()]
FinalFallback(generated_text, tweets) ==
  IF tweets = <<>> THEN <<Strip(generated_text)>> ELSE tweets

\* the branch of content type THREAD
ParseThread(generated_text) ==
  FinalFallback(generated_text,
                SmartSplit(generated_text, MarkedTweets(generated_text)))

\* the stripped lines that are not empty and do not start with a digit
SubstantialLines(lines) ==
  SelectSeq(StripAll(lines), LAMBDA line : line # "" /\ ~IsDigit(Char(line, 1)))

\* the branch of the other content types
ParseSingle(text, lines) ==
  IF Len(lines) > 1 /\ SubstantialLines(lines) # <<>>
  THEN SubstantialLines(lines)[1]
  ELSE text

\* a faulty variant: a thread of one segment is returned as a string
_parse_generated_content_unwrapped(generated_text, content_type) ==
  IF content_type = THREAD /\ Len(ParseThread(generated_text)) > 1
  THEN List(ParseThread(generated_text))
  ELSE IF content_type = THREAD THEN Str(ParseThread(generated_text)[1])
  ELSE Str(ParseSingle(Strip(generated_text), Split(Strip(generated_text), "\n")))

\* a list for a thread, a string otherwise
_parse_generated_content(generated_text, content_type) ==
  IF content_type = THREAD THEN List(ParseThread(generated_text))
  ELSE Str(ParseSingle(Strip(generated_text), Split(Strip(generated_text), "\n")))

(***************************************************************************)
(* ContentGenerator.generate (analysis/content_generator.py) and           *)
(* CalendarProcessor.suggest_content_dates (utils/calendar.py)             *)
(***************************************************************************)
ContentProposal(content_type, content, suggested_date, rationale, based_on) ==
  [content_type |-> content_type, content |-> content,
   suggested_date |-> suggested_date, rationale |-> rationale,
   based_on |-> based_on]

\* the default of the thread_count argument
THREAD_COUNT == 5

\* get_upcoming_events(30) at the time now: the events from now to 30 days
\* ahead, now <= event.date <= now + timedelta(days=30)
get_upcoming_events(events, now) ==
  SelectSeq(events, LAMBDA date : now <= date /\ date <= now + 30)

\* the dates after the event dates: last_date + timedelta(days=(i + 1) * 2)
\* for i in range(len(suggestions), count)
FillDates(suggestions, count) ==
  [j \in 1..(count - Len(suggestions)) |->
     suggestions[Len(suggestions)] + (Len(suggestions) + j) * 2]

\* suggest_content_dates(count) at the time now for the upcoming events of
\* that time, in days
suggest_content_dates(upcoming, count, now) ==
  IF upcoming = <<>> THEN [i \in 1..count |-> now + i * 2]
  ELSE IF Len(Take(upcoming, count)) < count
  THEN Take(upcoming, count) \o FillDates(Take(upcoming, count), count)
  ELSE Take(upcoming, count)

\* the context of a provider: loaded when its flag is set and it exists
ContextOf(use, processor, summary) ==
  IF use /\ processor THEN Some(summary) ELSE None

\* content_context, analytics_insights and calendar_hints
PrepareContext(g) ==
  [content_context |->
     ContextOf(g.use_content, g.file_processor, "content summary"),
   analytics_insights |->
     ContextOf(g.use_analytics, g.analytics_processor, "insights summary"),
   calendar_hints |->
     ContextOf(g.use_calendar, ~IsNone(g.calendar_processor), "schedule hints")]

\* the arguments of ollama_client.generate_content and what the call gave
GenerateContentCall(content_type, context, outcome) ==
  [content_context |-> context.content_context,
   content_type |-> content_type,
   analytics_insights |-> context.analytics_insights,
   calendar_hints |-> context.calendar_hints,
   thread_count |-> IF content_type = THREAD THEN Some(THREAD_COUNT) ELSE None,
   outcome |-> outcome]

\* suggested_date of proposal number i, counted from 0: the list of dates is
\* asked of the provider in the turn of the loop, at the time now
SuggestedDate(g, i, now) ==
  IF g.use_calendar /\ ~IsNone(g.calendar_processor)
       /\ i < Len(suggest_content_dates(
                    get_upcoming_events(g.calendar_processor[1], now),
                    g.count, now))
  THEN Some(suggest_content_dates(
              get_upcoming_events(g.calendar_processor[1], now),
              g.count, now)[i + 1])
  ELSE None

\* based_on: one tag for each flag that is set
BasedOn(use_content, use_analytics, use_calendar) ==
  (IF use_content THEN <<"content">> ELSE <<>>)
  \o (IF use_analytics THEN <<"analytics">> ELSE <<>>)
  \o (IF use_calendar THEN <<"calendar">> ELSE <<>>)

\* f"Generated based on voice analysis and {', '.join(based_on)}"
Rationale(based_on) ==
  "Generated based on voice analysis and " \o JoinWith(based_on, ", ")

\* the proposal number i built from the generated text
BuildProposal(g, content_type, generated_text, i, now) ==
  ContentProposal(content_type,
                  _parse_generated_content(generated_text, content_type),
                  SuggestedDate(g, i, now),
                  Rationale(BasedOn(g.use_content, g.use_analytics, g.use_calendar)),
                  BasedOn(g.use_content, g.use_analytics, g.use_calendar))

(***************************************************************************)
(* TwitterAPIClient.get_user_tweets, _fetch_tweets_with_pagination and     *)
(* TwitterCache.get_tweets                                                 *)
(***************************************************************************)
MAX_PAGINATION_ATTEMPTS == 10

\* the cache file of the tweets of the user: whether its cached_at is older
\* than the ttl, and its data
CacheEntry(expired, data) == [expired |-> expired, data |-> data]

\* n raw tweets, numbered from + 1 to from + n
RawTweets(from, n) == [i \in 1..n |-> from + i]

\* TwitterCache.get_tweets(username, max_results, return_all_if_available)
\* for the cache file of the user (None: no file, or a file that cannot be
\* read): None, or the list returned; "less than 80% of requested" is
\* len(tweets) < max_results * 0.8
get_tweets(entry, max_results, return_all_if_available) ==
  IF entry = None THEN None
  ELSE IF entry[1].expired THEN None
  ELSE IF return_all_if_available THEN Some(entry[1].data)
  ELSE IF Len(entry[1].data) < max_results
       THEN IF 5 * Len(entry[1].data) < 4 * max_results
            THEN None
            ELSE Some(entry[1].data)
  ELSE Some(Take(entry[1].data, max_results))

\* "if cached_tweets:": the cache gave a list and the list is not empty
IsCacheHit(cached_tweets) == cached_tweets # None /\ cached_tweets[1] # <<>>

\* the cached tweets get_user_tweets asks for
CachedTweets(call, entry) ==
  get_tweets(entry, call.max_results, call.prefer_cache_only)

\* get_user_tweets answers from the cache
AnswersFromCache(call, entry) ==
  call.cache_enabled /\ IsCacheHit(CachedTweets(call, entry))

\* a faulty variant: the retry whenever the first attempt has no tweets
ShouldRetry_every_time(page_tweets, attempt_no, with_replies) ==
  page_tweets = <<>> /\ attempt_no = 0

\* "if not tweet_data_list and attempt == 0 and not include_replies"
ShouldRetry(page_tweets, attempt_no, with_replies) ==
  page_tweets = <<>> /\ attempt_no = 0 /\ ~with_replies

\* the reasons to stop after a page: max_results reached, no next page, or an
\* empty next_cursor
StopsAfter(fetched, max_results, response) ==
  \/ Len(fetched) >= max_results
  \/ ~response.has_next_page
  \/ response.next_cursor = ""

\* the record of a request to /twitter/user/last_tweets: who made it, its
\* includeReplies parameter, the attempt counter at the time, and whether the
\* response held no tweets ("raised": the request or its validation raised)
Request(by, with_replies, attempt_no, got) ==
  [by |-> by, includeReplies |-> with_replies, attempt |-> attempt_no,
   got |-> got]

\* what get_user_tweets returns or raises
Returned(tweets) == [status |-> "returned", tweets |-> tweets]

Raised == [status |-> "raised", tweets |-> <<>>]

NoAnswer == [status |-> "none", tweets |-> <<>>]

(***************************************************************************)
(* The arguments of the calls                                              *)
(***************************************************************************)
MaxSegments == 2

\* every list of at most MaxSegments texts
TextLists == UNION {[1..k -> Texts] : k \in 0..MaxSegments}

\* the arguments score() is called with
Contents == {Str(t) : t \in Texts} \cup {List(ts) : ts \in TextLists}

\* tweets: a liked morning post, an undated post without counts, a reply of
\* the next evening, a link post a week later, a tagged reply and a mid-length
\* post a month later
TW_BEST == Tweet(T_BEST, Some(9), Some(40), Some(10), Some(5), Some(1), FALSE)

TW_RISK == Tweet(T_RISK, None, None, None, None, None, FALSE)

TW_REPLY == Tweet(T_SHORT, Some(42), Some(3), Some(0), None, None, TRUE)

TW_LINK == Tweet(T_LINK, Some(177), Some(0), Some(0), Some(0), Some(0), FALSE)

TW_TAG == Tweet(T_TAG, Some(66), Some(3), Some(1), Some(0), None, TRUE)

TW_MID == Tweet(T_MID, Some(729), Some(12), Some(2), Some(1), Some(0), FALSE)

Tweets == {TW_BEST, TW_RISK, TW_REPLY, TW_LINK, TW_TAG, TW_MID}

MaxTweets == 3

\* every list of at most MaxTweets tweets
TweetLists == UNION {[1..k -> Tweets] : k \in 0..MaxTweets}

BIO_SHORT == "builder"

BIO_MID == "Building tools for creators."

BIO_LONG == Repeat("Building tools for creators. ", 3)

\* no user information, or a profile with or without bio and followers
UserInfos ==
  {None,
   Some(UserInfo(None, None)),
   Some(UserInfo(Some(BIO_SHORT), Some(0))),
   Some(UserInfo(Some(BIO_MID), Some(100))),
   Some(UserInfo(Some(BIO_LONG), Some(5000)))}

\* no voice profile, or one with 0, 1, 3 or 13 topics
VoiceProfiles ==
  {None,
   Some(VoiceProfile(<<>>, None)),
   Some(VoiceProfile(<<"ai">>, Some(50))),
   Some(VoiceProfile(<<"ai", "startups", "design">>, Some(120))),
   Some(VoiceProfile([i \in 1..13 |-> "topic"], Some(0)))}

USERNAME == "profile"

MaxDated == 10

MaxUndated == 1

\* hours between two dated posts: an hour, half a day, a day, fifteen days
Gaps == {1, 12, 24, 360}

\* a post without counts
Post(text, created_at) == Tweet(text, created_at, None, None, None, None, FALSE)

\* n posts from 8 h of the first day on, gap hours apart, with the texts a
\* and b in turn
DatedPosts(n, gap, a, b) ==
  [i \in 1..n |-> Post(IF i % 2 = 1 THEN a ELSE b, Some(8 + (i - 1) * gap))]

UndatedPosts(u, b) == [i \in 1..u |-> Post(b, None)]

\* evenly spaced dated posts followed by undated ones
PostLists ==
  {DatedPosts(n, gap, a, b) \o UndatedPosts(u, b) :
     n \in 0..MaxDated, gap \in Gaps, u \in 0..MaxUndated,
     a \in PostTexts, b \in PostTexts}

\* raw generated texts: empty, blank, a marker alone, one line, a first line
\* that starts with a number, numbers only, two blocks, bracketed and dotted
\* numbering, numbering after a preamble, a marker without a space
R_EMPTY == ""

R_BLANK == "  \n "

R_MARK == "1/3"

R_SINGLE == "just one line"

R_TIPS == "3 tips for you\nsecond line"

R_NUMERIC == "123\n456"

R_BLOCKS == "first block\n\nsecond block"

R_PAREN == "1) one\nmore of one\n2) two"

R_DOTTED == "Here is the thread:\n\n1. one\n\n2. two"

R_COLON == "1/2:one\n2/2-two"

\* the texts of the segments of a numbered thread
SegmentTexts == {"first", "second", "third", "3 tips for you", "note: a - b"}

MaxParts == 3

\* the lines "k/n text_k", one for each text
Numbered(texts) ==
  JoinWith([k \in 1..Len(texts) |->
              ToString(k) \o "/" \o ToString(Len(texts)) \o " " \o texts[k]],
           "\n")

SegmentLists == UNION {[1..n -> SegmentTexts] : n \in 2..MaxParts}

\* a sentence of n characters that ends with a full stop
Sentence(n) == SubSeq(Repeat(Filler, 19), 1, n - 1) \o "."

\* sentences of the given lengths, sep between them
Paragraph(lengths, sep) ==
  JoinWith([i \in 1..Len(lengths) |-> Sentence(lengths[i])], sep)

\* paragraphs of 500 characters without a blank line: ten sentences, two
\* sentences, a long and a short sentence, five lines, no sentence break
Paragraphs ==
  {Paragraph(<<49, 49, 49, 49, 49, 49, 49, 49, 49, 50>>, " "),
   Paragraph(<<249, 250>>, " "),
   Paragraph(<<400, 99>>, " "),
   Paragraph(<<99, 99, 99, 99, 100>>, "\n"),
   SubSeq(Repeat(Filler, 19), 1, 500)}

\* lines that start with a digit: a marker character past the sixth
\* character, a decimal number, a marker followed by a hyphen, a bare marker
\* between two texts
R_LATE == "2024 was wild. really\n10. ten - x"

R_DECIMAL == "intro\n3.5x growth\n\n2-3. range"

R_BARE == "1/2\nalpha\n2/2\n\nbeta"

\* one numbered line, and a bare marker before a blank line
R_ONLY == "1. only this"

R_HEADED == "1/2\n\ntail"

\* one line of eleven sentences of 131 characters, each a chunk of its own
R_ELEVEN ==
  Paragraph(<<131, 131, 131, 131, 131, 131, 131, 131, 131, 131, 131>>, " ")

\* the texts the generator returns
RawTexts ==
  {R_EMPTY, R_BLANK, R_MARK, R_SINGLE, R_TIPS, R_NUMERIC, R_BLOCKS, R_PAREN,
   R_DOTTED, R_COLON, R_LATE, R_DECIMAL, R_BARE, R_ONLY, R_HEADED, R_ELEVEN}
  \cup {Numbered(texts) : texts \in SegmentLists}
  \cup Paragraphs

MaxCount == 3

\* the events of the calendar provider, sorted by date, in days from the start
\* of the call: no provider, no events, one in the past with two within 30
\* days and one beyond, or one within 30 days and two on the day after the
\* thirtieth
Calendars ==
  {None, Some(<<>>), Some(<<-2, 3, 10, 45>>), Some(<<29, 31, 31>>)}

\* the days a call of generate_content can take
ElapsedDays == {0, 1}

\* the self and the arguments of a call of generate()
GenerateCalls ==
  [use_content : BOOLEAN, use_analytics : BOOLEAN, use_calendar : BOOLEAN,
   count : 0..MaxCount, file_processor : BOOLEAN,
   analytics_processor : BOOLEAN, calendar_processor : Calendars]

\* the lengths _length_score is called with: up to past the hard bound of 280
MaxLength == 300

\* a text whose twelfth word is a hook keyword, and one whose thirteenth is
T_TWELFTH == "a b c d e f g h i j k stop"

T_THIRTEENTH == "a b c d e f g h i j k l stop"

\* a keyword inside a longer word, and a keyword of two words
T_INSIDE == "wildlife photos of the week"

T_TWOWORDS == "my hot take on this"

\* the texts _hook_score is called with
HookTexts ==
  AllTexts \cup {T_TWELFTH, T_THIRTEENTH, T_INSIDE, T_TWOWORDS}

\* the calls of get_user_tweets: max_results, whether the cache is enabled
\* and exists, prefer_cache_only
MaxResults == 5

ClientCalls ==
  [max_results : 0..MaxResults, cache_enabled : BOOLEAN,
   prefer_cache_only : BOOLEAN]

\* the cache files: none, or an expired or a fresh one of up to MaxCached
\* tweets
MaxCached == 6

CacheFiles ==
  {None} \cup {Some(CacheEntry(expired, RawTweets(100, n))) :
                 expired \in BOOLEAN, n \in 0..MaxCached}

\* the responses of the API: the number of tweets of the page, has_next_page
\* and next_cursor
MaxPage == 2

Responses ==
  [tweets : 0..MaxPage, has_next_page : BOOLEAN, next_cursor : {"", "next"}]

\* what generate_content returns, and what it raises
GeneratedTexts == {R_TIPS, R_BLOCKS}

GeneratorErrors == {"ConnectionError", "TimeoutError"}

(***************************************************************************)
(* Calls of ViralityScorer.score, of score_profile_health, of              *)
(* ContentGenerator._parse_generated_content and of                        *)
(* ContentGenerator.generate                                               *)
(***************************************************************************)
VARIABLES
  in_content,        \* the content argument of score()
  in_content_type,   \* the content_type argument of score()
  out_result,        \* the ViralityResult returned
  in_tweets,         \* the tweets argument of score_profile_health()
  in_user_info,      \* its user_info argument
  in_voice_profile,  \* its voice_profile argument
  out_health,        \* the ProfileHealthResult returned
  in_generated_text, \* the generated_text argument of _parse_generated_content
  out_content,       \* the string or list it returns
  in_generate,       \* the generator object and the arguments of generate()
  gen_context,       \* the contexts generate() has prepared
  gen_calls,         \* the calls of ollama_client.generate_content so far
  proposals,         \* the proposals generate() has built so far
  out_generate,      \* what generate() returned or raised
  clock,             \* the time generate() read last, in days from its start
  in_length,         \* the length argument of _length_score
  out_length_score,  \* the value it returns
  in_text,           \* the text argument of _hook_score
  out_hook_score,    \* the value it returns
  par_lines,         \* the lines the first pass of the thread parser has not read
  par_tweets,        \* its list tweets
  par_current_tweet, \* its list current_tweet
  in_client,         \* the client and the arguments of get_user_tweets
  cache_file,        \* the cache file of the tweets of the user
  cursor,            \* cursor in _fetch_tweets_with_pagination
  attempt,           \* its attempt counter
  include_replies,   \* its include_replies flag
  all_tweets,        \* its list all_tweets
  requests,          \* the requests to /twitter/user/last_tweets so far
  out_tweets,        \* what get_user_tweets returned or raised
  pc                 \* "call": the call is about to run, "loop": generate() is
                     \* in its loop, "done": the call has returned or raised

vars == <<in_content, in_content_type, out_result, in_tweets, in_user_info,
          in_voice_profile, out_health, in_generated_text, out_content,
          in_generate, gen_context, gen_calls, proposals, out_generate,
          clock, in_length, out_length_score, in_text, out_hook_score,
          par_lines, par_tweets, par_current_tweet, in_client, cache_file,
          cursor, attempt, include_replies, all_tweets, requests, out_tweets,
          pc>>

\* the variables of a call of generate()
generateVars ==
  <<in_generate, gen_context, gen_calls, proposals, out_generate, clock>>

NoContext ==
  [content_context |-> None, analytics_insights |-> None, calendar_hints |-> None]

NoOutcome == [status |-> "none", proposals |-> <<>>, error |-> ""]

\* generate() before its first step
GenerateStart ==
  /\ gen_context = NoContext
  /\ gen_calls = <<>>
  /\ proposals = <<>>
  /\ out_generate = NoOutcome
  /\ clock = 0

\* no call of generate()
GenerateIdle ==
  /\ in_generate = [use_content |-> FALSE, use_analytics |-> FALSE,
                    use_calendar |-> FALSE, count |-> 0,
                    file_processor |-> FALSE, analytics_processor |-> FALSE,
                    calendar_processor |-> None]
  /\ GenerateStart

\* the variables of the calls of the static methods _length_score and
\* _hook_score
unitVars == <<in_length, out_length_score, in_text, out_hook_score>>

\* no call of _length_score or _hook_score
UnitIdle ==
  /\ in_length = 0
  /\ out_length_score = 0
  /\ in_text = ""
  /\ out_hook_score = 0

\* the variables of the loop over the lines in _parse_generated_content
lineVars == <<par_lines, par_tweets, par_current_tweet>>

\* the loop is not running
LinesIdle ==
  /\ par_lines = <<>>
  /\ par_tweets = <<>>
  /\ par_current_tweet = <<>>

\* the variables of a call of get_user_tweets
clientVars == <<in_client, cache_file, cursor, attempt, include_replies,
                all_tweets, requests, out_tweets>>

\* _fetch_tweets_with_pagination before its loop, nothing returned
FetchStart ==
  /\ cursor = ""
  /\ attempt = 0
  /\ include_replies = FALSE
  /\ all_tweets = <<>>
  /\ requests = <<>>
  /\ out_tweets = NoAnswer

\* no call of get_user_tweets
ClientIdle ==
  /\ in_client = [max_results |-> 0, cache_enabled |-> FALSE,
                  prefer_cache_only |-> FALSE]
  /\ cache_file = None
  /\ FetchStart

\* the variables of a call of _parse_generated_content
parseVars == <<in_generated_text, out_content>>

\* no call of _parse_generated_content
ParseIdle == in_generated_text = "" /\ out_content = Str("")

NoResult == ViralityResult(0, EmptyDict, <<>>)

NoHealth == ProfileHealthResult(USERNAME, 0, EmptyDict, EmptyDict, <<>>, <<>>)

Init ==
  /\ in_content \in Contents
  /\ in_content_type \in ContentType
  /\ out_result = NoResult
  /\ in_tweets = <<>>
  /\ in_user_info = None
  /\ in_voice_profile = None
  /\ out_health = NoHealth
  /\ ParseIdle
  /\ GenerateIdle
  /\ UnitIdle
  /\ LinesIdle
  /\ ClientIdle
  /\ pc = "call"

\* ViralityScorer.score(content, content_type)
Score ==
  /\ pc = "call"
  /\ out_result' \in score(in_content, in_content_type)
  /\ pc' = "done"
  /\ UNCHANGED <<in_content, in_content_type, in_tweets, in_user_info,
                 in_voice_profile, out_health, parseVars,
                 generateVars, unitVars, lineVars, clientVars>>

Next == Score

Spec == Init /\ [][Next]_vars

InitHealth ==
  /\ in_content = Str(T_EMPTY)
  /\ in_content_type = TWEET
  /\ out_result = NoResult
  /\ in_tweets \in TweetLists
  /\ in_user_info \in UserInfos
  /\ in_voice_profile \in VoiceProfiles
  /\ out_health = NoHealth
  /\ ParseIdle
  /\ GenerateIdle
  /\ UnitIdle
  /\ LinesIdle
  /\ ClientIdle
  /\ pc = "call"

\* score_profile_health(username, tweets, user_info, voice_profile)
ScoreHealth ==
  /\ pc = "call"
  /\ out_health' \in score_profile_health(USERNAME, in_tweets, in_user_info,
                                          in_voice_profile)
  /\ pc' = "done"
  /\ UNCHANGED <<in_content, in_content_type, out_result, in_tweets,
                 in_user_info, in_voice_profile, parseVars,
                 generateVars, unitVars, lineVars, clientVars>>

NextHealth == ScoreHealth

SpecHealth == InitHealth /\ [][NextHealth]_vars

\* score_profile_health on evenly spaced posts
InitPosts ==
  /\ in_content = Str(T_EMPTY)
  /\ in_content_type = TWEET
  /\ out_result = NoResult
  /\ in_tweets \in PostLists
  /\ in_user_info = None
  /\ in_voice_profile = None
  /\ out_health = NoHealth
  /\ ParseIdle
  /\ GenerateIdle
  /\ UnitIdle
  /\ LinesIdle
  /\ ClientIdle
  /\ pc = "call"

SpecPosts == InitPosts /\ [][NextHealth]_vars

InitParse ==
  /\ in_content = Str(T_EMPTY)
  /\ in_content_type \in ContentType
  /\ out_result = NoResult
  /\ in_tweets = <<>>
  /\ in_user_info = None
  /\ in_voice_profile = None
  /\ out_health = NoHealth
  /\ in_generated_text \in RawTexts
  /\ out_content = Str("")
  /\ GenerateIdle
  /\ UnitIdle
  /\ LinesIdle
  /\ ClientIdle
  /\ pc = "call"

\* _parse_generated_content(generated_text, content_type)
Parse ==
  /\ pc = "call"
  /\ out_content' = _parse_generated_content(in_generated_text, in_content_type)
  /\ pc' = "done"
  /\ UNCHANGED <<in_content, in_content_type, out_result, in_tweets,
                 in_user_info, in_voice_profile, out_health, in_generated_text,
                 generateVars, unitVars, lineVars, clientVars>>

NextParse == Parse

SpecParse == InitParse /\ [][NextParse]_vars

\* the variables generate() leaves alone
otherVars == <<in_content, in_content_type, out_result, in_tweets,
               in_user_info, in_voice_profile, out_health, parseVars,
               unitVars, lineVars, clientVars>>

InitGenerate ==
  /\ in_content = Str(T_EMPTY)
  /\ in_content_type \in ContentType
  /\ out_result = NoResult
  /\ in_tweets = <<>>
  /\ in_user_info = None
  /\ in_voice_profile = None
  /\ out_health = NoHealth
  /\ ParseIdle
  /\ in_generate \in GenerateCalls
  /\ GenerateStart
  /\ UnitIdle
  /\ LinesIdle
  /\ ClientIdle
  /\ pc = "call"

\* generate() up to its loop: the contexts are loaded
GeneratePrepare ==
  /\ pc = "call"
  /\ gen_context' = PrepareContext(in_generate)
  /\ pc' = "loop"
  /\ UNCHANGED <<otherVars, in_generate, gen_calls, proposals, out_generate,
                 clock>>

\* one turn of the loop in which generate_content returns a text, after some
\* time: the dates are asked of the provider at the time of the turn
GenerateProposal ==
  /\ pc = "loop"
  /\ Len(proposals) < in_generate.count
  /\ \E generated_text \in GeneratedTexts, elapsed \in ElapsedDays :
       /\ gen_calls' =
            Append(gen_calls,
                   GenerateContentCall(in_content_type, gen_context,
                                       [kind |-> "return", value |-> generated_text]))
       /\ clock' = clock + elapsed
       /\ proposals' =
            Append(proposals,
                   BuildProposal(in_generate, in_content_type, generated_text,
                                 Len(proposals), clock + elapsed))
  /\ UNCHANGED <<otherVars, in_generate, gen_context, out_generate, pc>>

\* a faulty variant: the exception is suppressed and the proposals built so
\* far are returned
GenerateRaise_suppressed ==
  /\ pc = "loop"
  /\ Len(proposals) < in_generate.count
  /\ \E error \in GeneratorErrors :
       gen_calls' =
         Append(gen_calls,
                GenerateContentCall(in_content_type, gen_context,
                                    [kind |-> "raise", value |-> error]))
  /\ out_generate' = [status |-> "returned", proposals |-> proposals, error |-> ""]
  /\ pc' = "done"
  /\ UNCHANGED <<otherVars, in_generate, gen_context, proposals, clock>>

\* one turn of the loop in which generate_content raises: nothing catches the
\* exception, so that generate() ends with it
GenerateRaise ==
  /\ pc = "loop"
  /\ Len(proposals) < in_generate.count
  /\ \E error \in GeneratorErrors :
       /\ gen_calls' =
            Append(gen_calls,
                   GenerateContentCall(in_content_type, gen_context,
                                       [kind |-> "raise", value |-> error]))
       /\ out_generate' = [status |-> "raised", proposals |-> <<>>, error |-> error]
  /\ pc' = "done"
  /\ UNCHANGED <<otherVars, in_generate, gen_context, proposals, clock>>

\* return proposals, after the last turn of the loop
GenerateReturn ==
  /\ pc = "loop"
  /\ Len(proposals) >= in_generate.count
  /\ out_generate' = [status |-> "returned", proposals |-> proposals, error |-> ""]
  /\ pc' = "done"
  /\ UNCHANGED <<otherVars, in_generate, gen_context, gen_calls, proposals,
                 clock>>

NextGenerate ==
  \/ GeneratePrepare
  \/ GenerateProposal
  \/ GenerateRaise
  \/ GenerateReturn

SpecGenerate == InitGenerate /\ [][NextGenerate]_vars

\* a call of _length_score for a length and a content type, or a call of
\* _hook_score for a text
InitUnit ==
  /\ in_content = Str(T_EMPTY)
  /\ out_result = NoResult
  /\ in_tweets = <<>>
  /\ in_user_info = None
  /\ in_voice_profile = None
  /\ out_health = NoHealth
  /\ ParseIdle
  /\ GenerateIdle
  /\ LinesIdle
  /\ ClientIdle
  /\ out_length_score = 0
  /\ out_hook_score = 0
  /\ \/ /\ in_length \in 0..MaxLength
        /\ in_content_type \in ContentType
        /\ in_text = ""
        /\ pc = "length"
     \/ /\ in_length = 0
        /\ in_content_type = TWEET
        /\ in_text \in HookTexts
        /\ pc = "hook"

\* ViralityScorer._length_score(length, content_type)
LengthScore ==
  /\ pc = "length"
  /\ out_length_score' = _length_score(in_length, in_content_type)
  /\ pc' = "length done"
  /\ UNCHANGED <<in_content, in_content_type, out_result, in_tweets,
                 in_user_info, in_voice_profile, out_health, parseVars,
                 generateVars, lineVars, clientVars, in_length, in_text,
                 out_hook_score>>

\* ViralityScorer._hook_score(text)
HookScore ==
  /\ pc = "hook"
  /\ out_hook_score' = _hook_score(in_text)
  /\ pc' = "hook done"
  /\ UNCHANGED <<in_content, in_content_type, out_result, in_tweets,
                 in_user_info, in_voice_profile, out_health, parseVars,
                 generateVars, lineVars, clientVars, in_length, in_text,
                 out_length_score>>

NextUnit ==
  \/ LengthScore
  \/ HookScore

SpecUnit == InitUnit /\ [][NextUnit]_vars

\* the variables the loop over the lines leaves alone
loopFrame == <<in_content, in_content_type, out_result, in_tweets,
               in_user_info, in_voice_profile, out_health, parseVars,
               generateVars, unitVars, clientVars>>

\* _parse_generated_content(generated_text, THREAD) at the start of its loop:
\* lines = generated_text.split("\n"), tweets = [], current_tweet = []
InitLines ==
  /\ in_content = Str(T_EMPTY)
  /\ in_content_type = THREAD
  /\ out_result = NoResult
  /\ in_tweets = <<>>
  /\ in_user_info = None
  /\ in_voice_profile = None
  /\ out_health = NoHealth
  /\ in_generated_text \in RawTexts
  /\ out_content = Str("")
  /\ GenerateIdle
  /\ UnitIdle
  /\ ClientIdle
  /\ par_lines = Split(in_generated_text, "\n")
  /\ par_tweets = <<>>
  /\ par_current_tweet = <<>>
  /\ pc = "lines"

\* a turn of the loop for a line that is blank after line.strip()
BlankLine ==
  /\ pc = "lines"
  /\ par_lines # <<>>
  /\ Strip(Head(par_lines)) = ""
  /\ par_tweets' = FlushTweet(par_tweets, par_current_tweet)
  /\ par_current_tweet' = <<>>
  /\ par_lines' = Tail(par_lines)
  /\ UNCHANGED <<loopFrame, pc>>

\* a turn of the loop for a line that starts with a digit and has a marker
MarkerLine ==
  /\ pc = "lines"
  /\ par_lines # <<>>
  /\ Strip(Head(par_lines)) # ""
  /\ IsMarkerLine(Strip(Head(par_lines)))
  /\ par_tweets' = FlushTweet(par_tweets, par_current_tweet)
  /\ par_current_tweet' = StartTweet(Strip(Head(par_lines)))
  /\ par_lines' = Tail(par_lines)
  /\ UNCHANGED <<loopFrame, pc>>

\* a turn of the loop for any other line
TextLine ==
  /\ pc = "lines"
  /\ par_lines # <<>>
  /\ Strip(Head(par_lines)) # ""
  /\ ~IsMarkerLine(Strip(Head(par_lines)))
  /\ par_current_tweet' = Append(par_current_tweet, Strip(Head(par_lines)))
  /\ par_lines' = Tail(par_lines)
  /\ UNCHANGED <<loopFrame, par_tweets, pc>>

\* after the loop: the pending tweet is appended and the parser goes on to
\* what it returns
EndOfLines ==
  /\ pc = "lines"
  /\ par_lines = <<>>
  /\ par_tweets' = FlushTweet(par_tweets, par_current_tweet)
  /\ out_content' = _parse_generated_content(in_generated_text, THREAD)
  /\ pc' = "done"
  /\ UNCHANGED <<in_content, in_content_type, out_result, in_tweets,
                 in_user_info, in_voice_profile, out_health,
                 in_generated_text, generateVars, unitVars, clientVars,
                 par_lines, par_current_tweet>>

NextLines ==
  \/ BlankLine
  \/ MarkerLine
  \/ TextLine
  \/ EndOfLines

SpecLines == InitLines /\ [][NextLines]_vars

\* the variables a call of get_user_tweets leaves alone
clientFrame == <<in_content, in_content_type, out_result, in_tweets,
                 in_user_info, in_voice_profile, out_health, parseVars,
                 generateVars, unitVars, lineVars>>

\* a call of get_user_tweets(username, max_results, prefer_cache_only) on a
\* client with or without a cache, for a cache file of the user
InitClient ==
  /\ in_content = Str(T_EMPTY)
  /\ in_content_type = TWEET
  /\ out_result = NoResult
  /\ in_tweets = <<>>
  /\ in_user_info = None
  /\ in_voice_profile = None
  /\ out_health = NoHealth
  /\ ParseIdle
  /\ GenerateIdle
  /\ UnitIdle
  /\ LinesIdle
  /\ in_client \in ClientCalls
  /\ cache_file \in CacheFiles
  /\ FetchStart
  /\ pc = "call"

\* the cache has tweets: they are returned, no request is made
ReturnCached ==
  /\ pc = "call"
  /\ AnswersFromCache(in_client, cache_file)
  /\ out_tweets' = Returned(CachedTweets(in_client, cache_file)[1])
  /\ pc' = "done"
  /\ UNCHANGED <<clientFrame, in_client, cache_file, cursor, attempt,
                 include_replies, all_tweets, requests>>

\* prefer_cache_only without cached tweets: the empty list, no request
ReturnEmpty ==
  /\ pc = "call"
  /\ ~AnswersFromCache(in_client, cache_file)
  /\ in_client.prefer_cache_only
  /\ out_tweets' = Returned(<<>>)
  /\ pc' = "done"
  /\ UNCHANGED <<clientFrame, in_client, cache_file, cursor, attempt,
                 include_replies, all_tweets, requests>>

\* otherwise _fetch_tweets_with_pagination is called
Fetch ==
  /\ pc = "call"
  /\ ~AnswersFromCache(in_client, cache_file)
  /\ ~in_client.prefer_cache_only
  /\ pc' = "fetch"
  /\ UNCHANGED <<clientFrame, clientVars>>

\* "while len(all_tweets) < max_results and attempt < MAX_PAGINATION_ATTEMPTS"
LoopGoesOn ==
  /\ Len(all_tweets) < in_client.max_results
  /\ attempt < MAX_PAGINATION_ATTEMPTS

\* a turn of the loop: the first page without replies has no tweets, the
\* request is made again with replies
FetchRetry ==
  /\ pc = "fetch"
  /\ LoopGoesOn
  /\ \E response \in Responses :
       /\ ShouldRetry(RawTweets(Len(all_tweets), response.tweets), attempt,
                      include_replies)
       /\ requests' = Append(requests,
                             Request("page", include_replies, attempt, "empty"))
  /\ include_replies' = TRUE
  /\ cursor' = ""
  /\ UNCHANGED <<clientFrame, in_client, cache_file, attempt, all_tweets,
                 out_tweets, pc>>

\* a turn of the loop that takes the tweets of the page and leaves the loop
FetchLastPage ==
  /\ pc = "fetch"
  /\ LoopGoesOn
  /\ \E response \in Responses :
       /\ ~ShouldRetry(RawTweets(Len(all_tweets), response.tweets), attempt,
                       include_replies)
       /\ StopsAfter(all_tweets \o RawTweets(Len(all_tweets), response.tweets),
                     in_client.max_results, response)
       /\ all_tweets' = all_tweets \o RawTweets(Len(all_tweets), response.tweets)
       /\ requests' =
            Append(requests,
                   Request("page", include_replies, attempt,
                           IF response.tweets = 0 THEN "empty" ELSE "tweets"))
  /\ pc' = "fetched"
  /\ UNCHANGED <<clientFrame, in_client, cache_file, cursor, attempt,
                 include_replies, out_tweets>>

\* a turn of the loop that takes the tweets of the page and goes on to the
\* next page
FetchNextPage ==
  /\ pc = "fetch"
  /\ LoopGoesOn
  /\ \E response \in Responses :
       /\ ~ShouldRetry(RawTweets(Len(all_tweets), response.tweets), attempt,
                       include_replies)
       /\ ~StopsAfter(all_tweets \o RawTweets(Len(all_tweets), response.tweets),
                      in_client.max_results, response)
       /\ all_tweets' = all_tweets \o RawTweets(Len(all_tweets), response.tweets)
       /\ requests' =
            Append(requests,
                   Request("page", include_replies, attempt,
                           IF response.tweets = 0 THEN "empty" ELSE "tweets"))
       /\ cursor' = response.next_cursor
  /\ attempt' = attempt + 1
  /\ UNCHANGED <<clientFrame, in_client, cache_file, include_replies,
                 out_tweets, pc>>

\* a turn of the loop whose request fails, or whose response has an error
\* status: get_user_tweets raises TwitterAPIError
FetchRaise ==
  /\ pc = "fetch"
  /\ LoopGoesOn
  /\ requests' = Append(requests,
                        Request("page", include_replies, attempt, "raised"))
  /\ out_tweets' = Raised
  /\ pc' = "done"
  /\ UNCHANGED <<clientFrame, in_client, cache_file, cursor, attempt,
                 include_replies, all_tweets>>

\* the loop ends by its condition
FetchEnd ==
  /\ pc = "fetch"
  /\ ~LoopGoesOn
  /\ pc' = "fetched"
  /\ UNCHANGED <<clientFrame, clientVars>>

\* all_tweets[:max_results] is empty: _handle_no_tweets_found makes its debug
\* request and raises
RaiseNoTweets ==
  /\ pc = "fetched"
  /\ Take(all_tweets, in_client.max_results) = <<>>
  /\ requests' = Append(requests, Request("debug", TRUE, attempt, "raised"))
  /\ out_tweets' = Raised
  /\ pc' = "done"
  /\ UNCHANGED <<clientFrame, in_client, cache_file, cursor, attempt,
                 include_replies, all_tweets>>

\* all_tweets[:max_results] is cached, when the cache is enabled and the file
\* can be written, and returned
ReturnFetched ==
  /\ pc = "fetched"
  /\ Take(all_tweets, in_client.max_results) # <<>>
  /\ \/ /\ in_client.cache_enabled
        /\ cache_file' =
             Some(CacheEntry(FALSE, Take(all_tweets, in_client.max_results)))
     \/ cache_file' = cache_file
  /\ out_tweets' = Returned(Take(all_tweets, in_client.max_results))
  /\ pc' = "done"
  /\ UNCHANGED <<clientFrame, in_client, cursor, attempt, include_replies,
                 all_tweets, requests>>

NextClient ==
  \/ ReturnCached
  \/ ReturnEmpty
  \/ Fetch
  \/ FetchRetry
  \/ FetchLastPage
  \/ FetchNextPage
  \/ FetchRaise
  \/ FetchEnd
  \/ RaiseNoTweets
  \/ ReturnFetched

SpecClient == InitClient /\ [][NextClient]_vars


(***************************************************************************)
(* Properties of ViralityScorer.score                                      *)
(***************************************************************************)
InUnit(x) == 0 <= x /\ x <= Scale

NoRepeat(q) == \A i, j \in 1..Len(q) : q[i] = q[j] => i = j

\* C1: for every content (a string or a list, empty ones included) and every
\* content type, the score returned lies in [0, 100], also after the hook
\* bonus of a thread.
C1_ScoreInRange ==
  pc = "done" => 0 <= out_result.score /\ out_result.score <= 100 * Scale

\* a thread whose aggregate is 100 before the hook bonus is added
C1_Witness ==
  /\ pc = "done"
  /\ in_content = List(<<T_BEST>>)
  /\ in_content_type = THREAD
  /\ _aggregate_score(out_result.components) + 6 * _hook_score(T_BEST) > 100 * Scale
  /\ out_result.score = 100 * Scale

C3_ListOfOneIsScalar ==
  pc = "done" =>
    /\ in_content.kind = "str" =>
         /\ out_result \in score(List(<<in_content.value>>), in_content_type)
         /\ score(in_content, in_content_type)
              = score(List(<<in_content.value>>), in_content_type)
    /\ (in_content.kind = "list" /\ Len(in_content.value) = 1) =>
         /\ out_result \in score(Str(in_content.value[1]), in_content_type)
         /\ score(in_content, in_content_type)
              = score(Str(in_content.value[1]), in_content_type)

C3_Witness ==
  /\ pc = "done"
  /\ in_content = Str(T_HOOK)
  /\ in_content_type = THREAD
  /\ out_result.notes = <<"Strong hook">>

\* C4: the hook bonus, 6 times the hook score of the first segment with the
\* sum capped at 100, is added to the aggregate of the averaged components
\* exactly when the content type is THREAD, and the score of a thread is never
\* below that aggregate (both as returned, rounded to one decimal).
C4_HookBonusOnlyForThread ==
  (pc = "done" /\ TextsOf(in_content) # <<>>) =>
    /\ in_content_type = THREAD =>
         out_result.score \in
           Round1Float(Min(100 * Scale,
                           _aggregate_score(out_result.components)
                             + 6 * _hook_score(TextsOf(in_content)[1])))
    /\ in_content_type # THREAD =>
         out_result.score \in
           Round1Float(_aggregate_score(out_result.components))
    /\ \E s \in Round1Float(_aggregate_score(out_result.components)) :
         out_result.score >= s

\* a thread with a strong first segment: the bonus shows in the score
C4_Witness ==
  /\ pc = "done"
  /\ in_content = List(<<T_HOOK, T_SHORT>>)
  /\ in_content_type = THREAD
  /\ _hook_score(T_HOOK) = Scale
  /\ out_result.score
       \in Round1Float(_aggregate_score(out_result.components) + 6 * Scale)
  /\ out_result.score > _aggregate_score(out_result.components) + 5 * Scale

\* C5: the notes returned hold no string twice and at most 6 entries, threads
\* with a prepended "Strong hook" included.
C5_NotesCappedAtSix ==
  pc = "done" => NoRepeat(out_result.notes) /\ Len(out_result.notes) <= 6

\* C6: every component returned lies in [0, 1], for each segment and for the
\* average over the segments; negative_risk is capped at 1.0.
C6_ComponentsInUnit ==
  pc = "done" =>
    /\ \A k \in DOMAIN out_result.components : InUnit(out_result.components[k])
    /\ \A i \in 1..Len(TextsOf(in_content)) :
         \A k \in DOMAIN ScoredTexts[TextsOf(in_content)[i], in_content_type].components :
           InUnit(ScoredTexts[TextsOf(in_content)[i], in_content_type].components[k])

\* all six risk conditions fire: the raw sum is 1.4, the component 1.0
C6_Witness ==
  /\ pc = "done"
  /\ in_content = Str(T_RISK)
  /\ RawRisk(T_RISK, TextMetrics(T_RISK).hashtags, TextMetrics(T_RISK).mentions,
             TextMetrics(T_RISK).exclamations,
             TextMetrics(T_RISK).uppercase_ratio) = Dec(14, 10)
  /\ out_result.components.negative_risk = Scale

(***************************************************************************)
(* Properties of score_profile_health                                      *)
(***************************************************************************)
HEALTH_KEYS ==
  {"engagement_quality", "cadence", "topic_focus", "format_fit",
   "conversation_balance", "shareability", "hashtag_hygiene", "link_balance",
   "profile_completeness"}

\* C8: called with no tweets, with or without user information and voice
\* profile, score_profile_health returns a result whose overall score lies in
\* [0, 100] and which carries the defaults: cadence 0.4 with posts_per_week 0,
\* shareability 0.4 and reply_ratio 0.
C8_EmptyTweetsDefaults ==
  (pc = "done" /\ in_tweets = <<>>) =>
    /\ 0 <= out_health.overall_score
    /\ out_health.overall_score <= 100 * Scale
    /\ DOMAIN out_health.scores = HEALTH_KEYS
    /\ out_health.scores.cadence = Dec(4, 10)
    /\ out_health.metrics.posts_per_week = 0
    /\ out_health.scores.shareability = Dec(4, 10)
    /\ out_health.metrics.reply_ratio = 0

\* no tweets, a profile with followers and a long bio, a voice profile with
\* three topics: the overall score is 50.9 and no hour is reported
C8_Witness ==
  /\ pc = "done"
  /\ in_tweets = <<>>
  /\ in_user_info = Some(UserInfo(Some(BIO_LONG), Some(5000)))
  /\ in_voice_profile = Some(VoiceProfile(<<"ai", "startups", "design">>, Some(120)))
  /\ out_health.overall_score = Dec(509, 10)
  /\ out_health.metrics.best_posting_hours = <<>>

\* 100 times the weighted sum of the nine sub-scores returned
WeightedPoints ==
  25 * out_health.scores.engagement_quality
    + 20 * out_health.scores.shareability
    + 15 * out_health.scores.cadence
    + 12 * out_health.scores.topic_focus
    + 10 * out_health.scores.format_fit
    + 8 * out_health.scores.conversation_balance
    + 5 * out_health.scores.hashtag_hygiene
    + 3 * out_health.scores.link_balance
    + 2 * out_health.scores.profile_completeness

\* C9 as claimed: the scores mapping has exactly the nine named sub-scores,
\* each in [0, 1], and the overall score equals 100 times their weighted sum
\* with the weights 0.25/0.20/0.15/0.12/0.10/0.08/0.05/0.03/0.02.
C9_OverallIsWeightedSum ==
  pc = "done" =>
    /\ DOMAIN out_health.scores = HEALTH_KEYS
    /\ \A k \in HEALTH_KEYS : InUnit(out_health.scores[k])
    /\ out_health.overall_score = WeightedPoints
    /\ 0 <= out_health.overall_score
    /\ out_health.overall_score <= 100 * Scale

\* C9 as amended: the scores mapping has exactly the nine named sub-scores,
\* each in [0, 1], and the overall score equals 100 times their weighted sum
\* rounded to one decimal, so it lies in [0, 100] and within 0.05 of the sum.
C9_OverallIsRoundedWeightedSum ==
  pc = "done" =>
    /\ DOMAIN out_health.scores = HEALTH_KEYS
    /\ \A k \in HEALTH_KEYS : InUnit(out_health.scores[k])
    /\ out_health.overall_score \in Round1Float(WeightedPoints)
    /\ 2 * Abs(out_health.overall_score - WeightedPoints) <= Scale \div 10
    /\ 0 <= out_health.overall_score
    /\ out_health.overall_score <= 100 * Scale

\* one short reply: the weighted sum is 57.28 and the overall score 57.3
C9_Witness ==
  /\ pc = "done"
  /\ in_tweets = <<TW_REPLY>>
  /\ in_user_info = None
  /\ in_voice_profile = None
  /\ WeightedPoints = 5728 * (Scale \div 100)
  /\ out_health.overall_score = Dec(573, 10)

\* the order in which the sub-scores are checked for a recommendation
C10_ORDER ==
  <<"topic_focus", "shareability", "engagement_quality", "cadence",
    "conversation_balance", "format_fit", "hashtag_hygiene", "link_balance",
    "profile_completeness">>

\* the keys of C10_ORDER whose sub-score is strictly below 0.6, in that order
C10_LowKeys ==
  SelectSeq(C10_ORDER, LAMBDA k : out_health.scores[k] < Dec(6, 10))

\* the priority that goes with a sub-score
C10_Priority(k) ==
  IF k \in {"topic_focus", "shareability", "engagement_quality"} THEN "high"
  ELSE IF k \in {"cadence", "conversation_balance", "format_fit"} THEN "medium"
  ELSE "low"

\* the title of the recommendation of a sub-score
C10_Title(k) ==
  (CHOOSE r \in Elems(RECOMMENDATIONS) : r.key = k).title

C10_Rank(priority) ==
  IF priority = "high" THEN 1 ELSE IF priority = "medium" THEN 2 ELSE 3

\* C10: the recommendations are the first six, in the fixed order topic_focus,
\* shareability, engagement_quality, cadence, conversation_balance, format_fit,
\* hashtag_hygiene, link_balance, profile_completeness, of the sub-scores
\* strictly below 0.6; a sub-score equal to 0.6 gives none; the priorities come
\* in the order high, medium, low; the list never has more than 6 entries.
C10_RecommendationsFirstSix ==
  pc = "done" =>
    /\ Len(out_health.recommendations) = Min(6, Len(C10_LowKeys))
    /\ \A i \in 1..Len(out_health.recommendations) :
         /\ out_health.recommendations[i].title = C10_Title(C10_LowKeys[i])
         /\ out_health.recommendations[i].priority
              = C10_Priority(C10_LowKeys[i])
    /\ \A k \in HEALTH_KEYS :
         out_health.scores[k] = Dec(6, 10) =>
           \A i \in 1..Len(out_health.recommendations) :
             out_health.recommendations[i].title # C10_Title(k)
    /\ \A i, j \in 1..Len(out_health.recommendations) :
         i < j => C10_Rank(out_health.recommendations[i].priority)
                    <= C10_Rank(out_health.recommendations[j].priority)
    /\ Len(out_health.recommendations) <= 6

\* one spam-like post of an unknown profile with a single topic: eight
\* sub-scores are below 0.6, link_balance is exactly 0.6, six records are kept
C10_Witness ==
  /\ pc = "done"
  /\ in_tweets = <<TW_RISK>>
  /\ in_user_info = None
  /\ in_voice_profile = Some(VoiceProfile(<<"ai">>, Some(50)))
  /\ Len(C10_LowKeys) = 8
  /\ out_health.scores.link_balance = Dec(6, 10)
  /\ Len(out_health.recommendations) = 6
  /\ out_health.recommendations[6].title = "Tighten post length"

(***************************************************************************)
(* C11: the steps of a profile health result                               *)
(***************************************************************************)
\* which of the six steps a text is: 1 schedule, 2 best hours, 3 framework,
\* 4 replies, 5 themes, 6 length; 0 for any other text
C11_Kind(step) ==
  IF step = "Plan a 2-week schedule of 3-7 posts per week." THEN 1
  ELSE IF StartsWith(step, "Post during your best hours: ") THEN 2
  ELSE IF step = "Publish one framework/list post and one strong-opinion post weekly."
       THEN 3
  ELSE IF step = "Reply to 3-5 posts in your niche each week." THEN 4
  ELSE IF step = "Commit to 2-3 core themes for the next 10 posts." THEN 5
  ELSE IF step = "Keep single tweets in the 100-200 character range." THEN 6
  ELSE 0

\* the condition of each step, read from the scores and metrics of the result
C11_Condition(k) ==
  IF k = 1 THEN out_health.scores.cadence < Dec(7, 10)
  ELSE IF k = 2 THEN out_health.metrics.best_posting_hours # <<>>
  ELSE IF k = 3 THEN out_health.scores.shareability < Dec(7, 10)
  ELSE IF k = 4 THEN out_health.scores.conversation_balance < Dec(7, 10)
  ELSE IF k = 5 THEN out_health.scores.topic_focus < Dec(7, 10)
  ELSE out_health.scores.format_fit < Dec(7, 10)

\* C11: in every result of score_profile_health the steps are steps of the
\* six kinds in the fixed order cadence, best hours, shareability,
\* conversation balance, topic focus, format fit; a step is present exactly
\* when its condition holds, and there are at most six steps.
C11_StepsInOrder ==
  pc = "done" /\ out_health # NoHealth =>
    /\ Len(out_health.steps) <= 6
    /\ \A i \in 1..Len(out_health.steps) : C11_Kind(out_health.steps[i]) # 0
    /\ \A i, j \in 1..Len(out_health.steps) :
         i < j => C11_Kind(out_health.steps[i]) < C11_Kind(out_health.steps[j])
    /\ \A k \in 1..6 :
         C11_Condition(k) <=>
           \E i \in 1..Len(out_health.steps) : C11_Kind(out_health.steps[i]) = k

\* a result with all six steps: a single short reply posted at 18 h, for a
\* voice profile of one topic
C11_Witness ==
  /\ pc = "done"
  /\ in_tweets = <<TW_REPLY>>
  /\ Len(out_health.steps) = 6
  /\ out_health.steps[1] = "Plan a 2-week schedule of 3-7 posts per week."
  /\ out_health.steps[2] = "Post during your best hours: 18:00."
  /\ out_health.steps[6] = "Keep single tweets in the 100-200 character range."

(***************************************************************************)
(* C12: cadence of evenly spaced posts                                     *)
(***************************************************************************)
\* the hours of the dated posts of the call
C12_Stamps ==
  {in_tweets[i].created_at[1] :
     i \in {j \in 1..Len(in_tweets) : in_tweets[j].created_at # None}}

C12_DatedCount ==
  Cardinality({j \in 1..Len(in_tweets) : in_tweets[j].created_at # None})

\* ten dated posts, each exactly one day after the one before
C12_TenDaily ==
  /\ C12_DatedCount = 10
  /\ \E first \in C12_Stamps : C12_Stamps = {first + 24 * k : k \in 0..9}

\* fewer than two dated posts give the score 0.4 and the rate 0
C12_FewDated ==
  C12_DatedCount < 2 =>
    /\ out_health.scores.cadence = Dec(4, 10)
    /\ out_health.metrics.posts_per_week = 0

\* C12 as stated: ten dated posts one day apart give posts_per_week 7.0 (to
\* the decimal shown, that is within 0.05) and the cadence score 0.9; fewer
\* than two dated posts give 0.4 and 0.
C12_DailyIsSevenPerWeek ==
  pc = "done" /\ out_health # NoHealth =>
    /\ C12_TenDaily =>
         /\ Abs(out_health.metrics.posts_per_week - 7 * Scale) <= Dec(5, 100)
         /\ out_health.scores.cadence = Dec(9, 10)
    /\ C12_FewDated

\* C12 amended: ten dated posts one day apart span nine days, so that
\* posts_per_week is 10 / 9 * 7, reported as 7.78, and the cadence score is
\* 0.9; fewer than two dated posts give 0.4 and 0.
C12_DailyIsTenOverNineWeeks ==
  pc = "done" /\ out_health # NoHealth =>
    /\ C12_TenDaily =>
         /\ out_health.metrics.posts_per_week = Dec(778, 100)
         /\ out_health.scores.cadence = Dec(9, 10)
    /\ C12_FewDated

\* ten daily posts and an undated one have been scored
C12_Witness ==
  /\ pc = "done"
  /\ C12_TenDaily
  /\ Len(in_tweets) = 11
  /\ out_health.metrics.posts_per_week = Dec(778, 100)
  /\ out_health.scores.cadence = Dec(9, 10)

(***************************************************************************)
(* C13: one hashtag in every post                                          *)
(***************************************************************************)
\* the post texts with exactly one "#" followed by a word character
C13_OneTagTexts == {T_TAG, T_ONETAG, T_LONETAG}

\* C13: for a non-empty list of posts that each hold exactly one hashtag the
\* hashtag_rate is 1.0 and the hashtag_hygiene score is 0.85.
C13_OneHashtagEach ==
  /\ pc = "done"
  /\ in_tweets # <<>>
  /\ \A i \in 1..Len(in_tweets) : in_tweets[i].text \in C13_OneTagTexts
  => /\ out_health.metrics.hashtag_rate = Scale
     /\ out_health.scores.hashtag_hygiene = Dec(85, 100)

\* posts of two different texts with one hashtag each have been scored
C13_Witness ==
  /\ pc = "done"
  /\ Len(in_tweets) >= 3
  /\ in_tweets[1].text = T_LONETAG
  /\ in_tweets[2].text = T_ONETAG
  /\ \A i \in 1..Len(in_tweets) : in_tweets[i].text \in C13_OneTagTexts
  /\ out_health.scores.hashtag_hygiene = Dec(85, 100)

(***************************************************************************)
(* C14 - C16, C18: parsing of the generated text                           *)
(***************************************************************************)
\* C14: parsing any raw text as a thread returns a list with at least one
\* element, and every element is a non-empty string.
C14_ThreadSegmentsNonEmpty ==
  pc = "done" /\ in_content_type = THREAD /\ out_content.kind = "list" =>
    /\ Len(out_content.value) >= 1
    /\ \A i \in 1..Len(out_content.value) : out_content.value[i] # ""

\* C15: numbered lines "k/n text_k" for n >= 2 texts parse to exactly these
\* texts, in order and without the markers.
C15_NumberedRoundTrip ==
  pc = "done" /\ in_content_type = THREAD =>
    \A texts \in SegmentLists :
      in_generated_text = Numbered(texts) => out_content = List(texts)

\* the example of the claim has been parsed
C15_Witness ==
  /\ pc = "done"
  /\ in_content_type = THREAD
  /\ in_generated_text = "1/3 first\n2/3 second\n3/3 third"
  /\ out_content = List(<<"first", "second", "third">>)

\* a paragraph of 500 characters without a blank line and without numbering
C16_IsParagraph(text) ==
  /\ Len(text) = 500
  /\ ~Contains(text, "\n\n")
  /\ \A i \in 1..Len(text) :
       IsDigit(Char(text, i)) => i > 1 /\ Char(text, i - 1) # "\n"

\* C16: a paragraph of 500 characters parses as a thread to at least two
\* segments, none longer than 280 characters by more than a margin of 20.
C16_LongParagraphIsSplit ==
  /\ pc = "done"
  /\ in_content_type = THREAD
  /\ out_content.kind = "list"
  /\ C16_IsParagraph(in_generated_text)
  => /\ Len(out_content.value) >= 2
     /\ \A i \in 1..Len(out_content.value) : Len(out_content.value[i]) <= 300

\* the stripped lines of the raw text
C18_Lines == StripAll(Split(in_generated_text, "\n"))

\* the lines that are not empty and not made of digits only
C18_Textual ==
  {i \in 1..Len(C18_Lines) :
     \E j \in 1..Len(C18_Lines[i]) : ~IsDigit(Char(C18_Lines[i], j))}

\* C18: for a content type other than THREAD the result is the first line
\* that is non-empty and not purely numeric, and the whole trimmed text when
\* there is no such line.
C18_FirstNonNumericLine ==
  pc = "done" /\ in_content_type # THREAD /\ out_content.kind = "str" =>
    out_content.value =
      IF C18_Textual # {} THEN C18_Lines[Least(C18_Textual)]
      ELSE Strip(in_generated_text)

(***************************************************************************)
(* C17, C19, C20: the proposals of ContentGenerator.generate                *)
(***************************************************************************)
\* C17: the content of every proposal is a list exactly when the content
\* type is THREAD, and a single string for TWEET, REPLY and QUOTE.
C17_ListIffThread ==
  \A k \in 1..Len(out_generate.proposals) :
    /\ out_generate.proposals[k].content_type = in_content_type
    /\ out_generate.proposals[k].content.kind \in {"list", "str"}
    /\ out_generate.proposals[k].content.kind = "list"
         <=> out_generate.proposals[k].content_type = THREAD

\* a thread of one segment and a thread of two segments have been returned
C17_Witness ==
  /\ out_generate.status = "returned"
  /\ in_content_type = THREAD
  /\ Len(out_generate.proposals) = 2
  /\ out_generate.proposals[1].content = List(<<"3 tips for you second line">>)
  /\ out_generate.proposals[2].content = List(<<"first block", "second block">>)

\* the calls of the generator that raised
C19_Raised == {k \in 1..Len(gen_calls) : gen_calls[k].outcome.kind = "raise"}

C20_Enabled ==
  SelectSeq(<<"content", "analytics", "calendar">>,
            LAMBDA tag :
              \/ tag = "content"
                   /\ in_generate.use_content /\ in_generate.file_processor
              \/ tag = "analytics"
                   /\ in_generate.use_analytics /\ in_generate.analytics_processor
              \/ tag = "calendar"
                   /\ in_generate.use_calendar
                   /\ in_generate.calendar_processor # None)

\* the tags whose context call number k handed to the generator
C20_Supplied(k) ==
  SelectSeq(<<"content", "analytics", "calendar">>,
            LAMBDA tag :
              \/ tag = "content" /\ gen_calls[k].content_context # None
              \/ tag = "analytics" /\ gen_calls[k].analytics_insights # None
              \/ tag = "calendar" /\ gen_calls[k].calendar_hints # None)

\* C20: based_on of every proposal lists, in the order content, analytics,
\* calendar, exactly the tags whose flag is set and whose provider exists, that
\* is those whose context was handed to the generator, and the rationale
\* names exactly these tags.
C20_BasedOnEnabled ==
  \A k \in 1..Len(proposals) :
    /\ proposals[k].based_on = C20_Enabled
    /\ proposals[k].based_on = C20_Supplied(k)
    /\ proposals[k].rationale =
         "Generated based on voice analysis and "
           \o JoinWith(proposals[k].based_on, ", ")

(***************************************************************************)
(* Properties of the suggested dates of ContentGenerator.generate          *)
(***************************************************************************)
\* calendar usage is requested and a calendar provider is configured
C21_CalendarUsed ==
  in_generate.use_calendar /\ in_generate.calendar_processor # None

\* the provider's list of suggested dates for count N, asked at the time now
C21_ProviderDates(now) ==
  suggest_content_dates(
    get_upcoming_events(in_generate.calendar_processor[1], now),
    in_generate.count, now)

\* C21: with calendar usage requested and a provider configured, proposal
\* number i carries the i-th date of the provider's list for count N, so no
\* suggested_date is null and the dates never decrease with i; without the
\* request or without a provider every suggested_date is null.
C21_SuggestedDates ==
  IF C21_CalendarUsed
  THEN /\ \A k \in 1..Len(proposals) :
            /\ proposals[k].suggested_date # None
            /\ \E now \in 0..clock :
                 proposals[k].suggested_date = Some(C21_ProviderDates(now)[k])
       /\ \A j, k \in 1..Len(proposals) :
            j <= k =>
              proposals[j].suggested_date[1] <= proposals[k].suggested_date[1]
  ELSE \A k \in 1..Len(proposals) : proposals[k].suggested_date = None

(***************************************************************************)
(* Properties of the aggregation over the segments of a list               *)
(***************************************************************************)
\* score() was called with a list of at least one segment
C22_ListScored ==
  pc = "done" /\ in_content.kind = "list" /\ Len(in_content.value) >= 1

\* the result of segment number i on its own
C22_Segment(i) == ScoredTexts[in_content.value[i], in_content_type]

\* component k of segment number i; an empty segment has no components and
\* contributes 0
C22_Part(i, k) ==
  IF Strip(in_content.value[i]) = "" THEN 0 ELSE C22_Segment(i).components[k]

\* each returned component is the sum over the n segments divided by n
C22_ComponentsAreMeans ==
  \A k \in DOMAIN out_result.components :
    out_result.components[k] =
      SumSeq([i \in 1..Len(in_content.value) |-> C22_Part(i, k)])
        \div Len(in_content.value)

\* the mean of the per-segment scores
C22_MeanOfScores ==
  SumSeq([i \in 1..Len(in_content.value) |-> C22_Segment(i).score])
    \div Len(in_content.value)

\* C22 as stated: for a list of n segments each returned component is the sum
\* of the component over the segments divided by n, an empty segment counting
\* in n, and the returned score is the weighted formula applied to these
\* averaged components (as returned, rounded to one decimal).
C22_ScoreIsFormulaOfMeans ==
  C22_ListScored =>
    /\ C22_ComponentsAreMeans
    /\ out_result.score \in Round1Float(_aggregate_score(out_result.components))

\* C22, amended: the components are the means over the n segments, an empty
\* segment counting in n, and the returned score is the weighted formula
\* applied to these means, to which a THREAD adds 6 times the hook score of
\* its first segment up to the cap of 100, rounded to one decimal.
C22_ScoreIsFormulaOfMeansPlusBonus ==
  C22_ListScored =>
    /\ C22_ComponentsAreMeans
    /\ in_content_type # THREAD =>
         out_result.score \in
           Round1Float(_aggregate_score(out_result.components))
    /\ in_content_type = THREAD =>
         out_result.score \in
           Round1Float(Min(100 * Scale,
                           _aggregate_score(out_result.components)
                             + 6 * _hook_score(in_content.value[1])))

\* a tweet list of an empty segment and a bait segment whose own score is
\* clamped to 0: the components are halved, and the score computed from
\* them is not the mean of the two scores
C22_Witness ==
  /\ C22_ListScored
  /\ in_content = List(<<T_ASK, T_RISK>>)
  /\ in_content_type = TWEET
  /\ C22_Segment(2).score = 0
  /\ out_result.components["reply_potential"]
       = C22_Segment(1).components["reply_potential"] \div 2
  /\ out_result.components["reply_potential"] > 0
  /\ ~(out_result.score \in Round1Float(C22_MeanOfScores))

\* a thread of an empty segment and a hooked one: the empty segment counts
\* in n
C22_WitnessEmpty ==
  /\ C22_ListScored
  /\ in_content = List(<<T_HOOK, T_EMPTY>>)
  /\ in_content_type = THREAD
  /\ out_result.components["dwell_potential"]
       = C22_Segment(1).components["dwell_potential"] \div 2
  /\ out_result.components["dwell_potential"] > 0

(***************************************************************************)
(* Properties of ViralityScorer._length_score and _hook_score              *)
(***************************************************************************)
\* the ideal band of a content type
C23_IdealMin ==
  CASE in_content_type = REPLY -> 60
    [] in_content_type = QUOTE -> 80
    [] in_content_type = THREAD -> 120
    [] in_content_type = TWEET -> 100

C23_IdealMax ==
  CASE in_content_type = REPLY -> 200
    [] in_content_type = QUOTE -> 200
    [] in_content_type = THREAD -> 260
    [] in_content_type = TWEET -> 220

\* C23: length_score is the trapezoid of the length L: 0 for L <= 30 and for
\* L >= 280, (L - 30) / (ideal_min - 30) below the ideal band, 1.0 within
\* it, (280 - L) / (280 - ideal_max) above it, with the bands REPLY 60-200,
\* QUOTE 80-200, THREAD 120-260, TWEET 100-220; it is within [0, 1], never
\* decreases up to ideal_min and never increases from ideal_max.
C23_LengthScoreIsTrapezoid ==
  pc = "length done" =>
    /\ (in_length <= 30 \/ in_length >= 280) => out_length_score = 0
    /\ (30 < in_length /\ in_length < C23_IdealMin) =>
         out_length_score * (C23_IdealMin - 30) = (in_length - 30) * Scale
    /\ (C23_IdealMin <= in_length /\ in_length <= C23_IdealMax) =>
         out_length_score = Scale
    /\ (C23_IdealMax < in_length /\ in_length < 280) =>
         out_length_score * (280 - C23_IdealMax) = (280 - in_length) * Scale
    /\ 0 <= out_length_score /\ out_length_score <= Scale
    /\ \A shorter \in 0..in_length :
         /\ in_length <= C23_IdealMin =>
              _length_score(shorter, in_content_type) <= out_length_score
         /\ shorter >= C23_IdealMax =>
              _length_score(shorter, in_content_type) >= out_length_score

\* a thread segment of 250 characters is within the band of a thread, which
\* ends at 260, and above the band of the other three types
C23_Witness ==
  /\ pc = "length done"
  /\ in_length = 250
  /\ in_content_type = THREAD
  /\ out_length_score = Scale

\* a reply of 45 characters is half way up the ramp from 30 to 60
C23_WitnessRamp ==
  /\ pc = "length done"
  /\ in_length = 45
  /\ in_content_type = REPLY
  /\ out_length_score = Dec(5, 10)

\* the first 12 words of the lowercased text, as the text writes them
C24_FirstWords ==
  JoinSpace(Take(Runs(Lower(in_text), NoneOf(SpaceSet)), 12))

\* a keyword of the hook-keyword set appears in the first 12 words
C24_KeywordAppears ==
  \E i \in 1..Len(HOOK_KEYWORDS) : Contains(C24_FirstWords, HOOK_KEYWORDS[i])

\* C24: for every text whose trimmed form is not empty, hook_score is 1.0 if
\* a keyword of the hook-keyword set, "here's" included, appears in the first
\* 12 words of the lowercased text, and 0.3 otherwise; no other value occurs.
C24_HookIsOneOrThreeTenths ==
  (pc = "hook done" /\ Strip(in_text) # "") =>
    /\ out_hook_score \in {Scale, Dec(3, 10)}
    /\ out_hook_score = Scale <=> C24_KeywordAppears

(***************************************************************************)
(* Properties of the loop over the lines of a thread                       *)
(***************************************************************************)
\* the line the loop is about to read, stripped
C25_Line == Strip(Head(par_lines))

\* the first character is a digit and one of "/", ")", "." is among the
\* first 6 characters
C25_IsMarker ==
  /\ Char(C25_Line, 1) \in DigitSet
  /\ \E i \in 1..Min(6, Len(C25_Line)) : Char(C25_Line, i) \in {"/", ")", "."}

\* the positions after position 0 that hold a space, a colon or a hyphen,
\* counted from 1
C25_Delimiters ==
  {i \in 2..Len(C25_Line) : Char(C25_Line, i) \in {" ", ":", "-"}}

\* the buffer a marker line starts: the text after the first delimiter, or
\* nothing
C25_NewBuffer ==
  IF C25_Delimiters = {} THEN <<>>
  ELSE IF Strip(SubSeq(C25_Line, Least(C25_Delimiters) + 1, Len(C25_Line))) = ""
  THEN <<>>
  ELSE <<Strip(SubSeq(C25_Line, Least(C25_Delimiters) + 1, Len(C25_Line)))>>

\* the segments after the pending buffer is flushed
C25_Flushed ==
  IF par_current_tweet = <<>> THEN par_tweets
  ELSE Append(par_tweets, Strip(JoinWith(par_current_tweet, " ")))

\* one turn of the loop, as the claim describes it
C25_Turn ==
  (pc = "lines" /\ par_lines # <<>>) =>
    /\ par_lines' = Tail(par_lines)
    /\ C25_Line = "" =>
         par_tweets' = C25_Flushed /\ par_current_tweet' = <<>>
    /\ (C25_Line # "" /\ C25_IsMarker) =>
         par_tweets' = C25_Flushed /\ par_current_tweet' = C25_NewBuffer
    /\ (C25_Line # "" /\ ~C25_IsMarker) =>
         /\ par_tweets' = par_tweets
         /\ par_current_tweet' = Append(par_current_tweet, C25_Line)

\* C25: in the first pass of thread parsing a line is a segment marker
\* exactly when its first character is a digit and "/", ")" or "." occurs
\* within its first 6 characters; a marker line flushes the pending buffer as
\* a segment and starts a buffer with the text after the first space, colon or
\* hyphen after position 0 (an empty buffer without one); a blank line
\* flushes the buffer; any other line is appended to the buffer, whose lines
\* are joined with single spaces.
C25_FirstPassTurns == [][C25_Turn]_vars

\* after the marker line "2/2-two": the buffer of the first marker line was
\* flushed as "one" and the new buffer holds the text after the hyphen
C25_Witness ==
  /\ pc = "lines"
  /\ in_generated_text = R_COLON
  /\ par_lines = <<>>
  /\ par_tweets = <<"one">>
  /\ par_current_tweet = <<"two">>

\* a marker line without a delimiter flushed the buffer and left it empty,
\* and a blank line flushed the next
C25_WitnessBare ==
  /\ in_generated_text = R_BARE
  /\ par_lines = <<"beta">>
  /\ par_tweets = <<"alpha">>
  /\ par_current_tweet = <<>>

\* the loop and the flush after it give what the parser works on
C25_LoopIsThreadLines ==
  pc = "done" =>
    par_tweets = ThreadLines(Split(in_generated_text, "\n"), <<>>, <<>>)

(***************************************************************************)
(* What thread parsing keeps of the raw text                               *)
(***************************************************************************)
\* the whitespace-separated words of a text
C26_WordsOf(text) == Runs(text, NoneOf(SpaceSet))

\* the words of the returned segments, in order
C26_Returned ==
  Flatten([i \in 1..Len(out_content.value) |->
             C26_WordsOf(out_content.value[i])])

\* a numbering marker of the form N/M, N) or N.
C26_IsNumbering(word) ==
  \E n \in 1..(Len(word) - 1) :
    /\ \A i \in 1..n : Char(word, i) \in DigitSet
    /\ \/ (n = Len(word) - 1 /\ Char(word, n + 1) \in {")", "."})
       \/ /\ Char(word, n + 1) = "/"
          /\ n + 1 < Len(word)
          /\ \A i \in (n + 2)..Len(word) : Char(word, i) \in DigitSet

\* the words of the raw text that are not numbering markers
C26_Content ==
  SelectSeq(C26_WordsOf(in_generated_text), LAMBDA word : ~C26_IsNumbering(word))

\* sub occurs in full as a subsequence: its words appear in full in order
RECURSIVE C26_InOrder(_, _)
C26_InOrder(sub, full) ==
  IF sub = <<>> THEN TRUE
  ELSE IF full = <<>> THEN FALSE
  ELSE IF Head(sub) = Head(full) THEN C26_InOrder(Tail(sub), Tail(full))
  ELSE C26_InOrder(sub, Tail(full))

\* C26 as stated: thread parsing loses no content: every whitespace-separated
\* word of the raw text that is not itself a numbering marker N/M, N) or N.
\* appears in the returned segments, in the original order, on every path.
C26_NoContentLost ==
  (pc = "done" /\ in_content_type = THREAD) =>
    C26_InOrder(C26_Content, C26_Returned)

\* what the first pass keeps of a line: nothing of a blank line, the text
\* after the first space, colon or hyphen of a marker line, every other line
\* whole
C26_KeptOfLine(line) ==
  IF line = "" THEN <<>>
  ELSE IF IsMarkerLine(line) THEN C26_WordsOf(tweet_text(line))
  ELSE C26_WordsOf(line)

C26_FirstPassWords ==
  Flatten([i \in 1..Len(Split(in_generated_text, "\n")) |->
             C26_KeptOfLine(Strip(Split(in_generated_text, "\n")[i]))])

\* the path the parser takes: the first pass finds two segments or more, or
\* the text has two paragraphs or more, or more than 400 characters, or the
\* first pass found one segment, or none
C26_Path ==
  IF Len(MarkedTweets(in_generated_text)) >= 2 THEN "marked"
  ELSE IF Len(paragraphs(in_generated_text)) > 1 THEN "paragraphs"
  ELSE IF Len(Strip(in_generated_text)) > 400 THEN "chunks"
  ELSE IF Len(MarkedTweets(in_generated_text)) = 1 THEN "single"
  ELSE "whole"

\* sub is the start of full
C26_IsPrefix(sub, full) ==
  Len(sub) <= Len(full) /\ sub = SubSeq(full, 1, Len(sub))

\* C26, amended: thread parsing adds and reorders nothing and loses only
\* marker prefixes and the chunks past the tenth: the words of the returned
\* segments are, in order, the words the first pass keeps (of a marker line the
\* text after its first space, colon or hyphen) when the first pass finds two
\* segments or more, or finds one in a text of one paragraph of at most 400
\* characters; all words of the raw text on the paragraph path and on the
\* whole-text path; and on the sentence path a start of the words of the raw
\* text, all of them when fewer than 10 segments are returned.
C26_KeptWords ==
  (pc = "done" /\ in_content_type = THREAD) =>
    /\ C26_Path \in {"marked", "single"} => C26_Returned = C26_FirstPassWords
    /\ C26_Path \in {"paragraphs", "whole"} =>
         C26_Returned = C26_WordsOf(in_generated_text)
    /\ C26_Path = "chunks" =>
         /\ C26_IsPrefix(C26_Returned, C26_WordsOf(in_generated_text))
         /\ Len(out_content.value) <= 10
         /\ Len(out_content.value) < 10 =>
              C26_Returned = C26_WordsOf(in_generated_text)

\* eleven sentences that are a chunk each: ten segments are returned and the
\* words of the eleventh sentence are gone
C26_Witness ==
  /\ pc = "done"
  /\ in_content_type = THREAD
  /\ in_generated_text = R_ELEVEN
  /\ C26_Path = "chunks"
  /\ Len(out_content.value) = 10
  /\ Len(C26_Returned) < Len(C26_WordsOf(in_generated_text))

\* a decimal number at the start of a line is taken for a marker and dropped
C26_WitnessDecimal ==
  /\ pc = "done"
  /\ in_content_type = THREAD
  /\ in_generated_text = R_DECIMAL
  /\ out_content = List(<<"intro", "growth", "3. range">>)

(***************************************************************************)
(* The cut of the recommendations and of the steps to six                  *)
(***************************************************************************)
\* the sub-scores with a record of high or medium priority, and those with a
\* record of low priority, in the order in which the records are added
C27_MainKeys ==
  <<"topic_focus", "shareability", "engagement_quality", "cadence",
    "conversation_balance", "format_fit">>

C27_LowPriorityKeys ==
  <<"hashtag_hygiene", "link_balance", "profile_completeness">>

\* the result holds the record of a sub-score
C27_HasRecord(k) ==
  \E i \in 1..Len(out_health.recommendations) :
    \E r \in Elems(RECOMMENDATIONS) :
      /\ r.key = k
      /\ out_health.recommendations[i].title = r.title

C27_Below(k) == out_health.scores[k] < Dec(6, 10)

\* the number of records added before the record of low-priority key number n
C27_Preceding(n) ==
  Cardinality({i \in 1..6 : C27_Below(C27_MainKeys[i])})
    + Cardinality({j \in 1..(n - 1) : C27_Below(C27_LowPriorityKeys[j])})

\* C27: the cut of the recommendations to 6 never removes a record of high
\* or medium priority: the records of topic_focus, shareability,
\* engagement_quality, cadence, conversation_balance and format_fit are
\* present exactly when their sub-score is below 0.6, and the record of
\* hashtag_hygiene, link_balance or profile_completeness with a sub-score
\* below 0.6 is left out exactly when six records precede it.
C27_CutKeepsHighAndMedium ==
  (pc = "done" /\ out_health # NoHealth) =>
    /\ \A i \in 1..6 :
         C27_HasRecord(C27_MainKeys[i]) <=> C27_Below(C27_MainKeys[i])
    /\ \A i \in 1..Len(out_health.recommendations) :
         out_health.recommendations[i].priority \in {"high", "medium"} =>
           \E j \in 1..6 : out_health.recommendations[i].title
                             = C10_Title(C27_MainKeys[j])
    /\ \A n \in 1..3 :
         C27_Below(C27_LowPriorityKeys[n]) =>
           (~C27_HasRecord(C27_LowPriorityKeys[n]) <=> C27_Preceding(n) >= 6)

\* six records of high and medium priority, and a hashtag score below 0.6
\* whose record is cut
C27_Witness ==
  /\ pc = "done"
  /\ \A i \in 1..6 : C27_HasRecord(C27_MainKeys[i])
  /\ C27_Below("hashtag_hygiene")
  /\ ~C27_HasRecord("hashtag_hygiene")
  /\ Len(out_health.recommendations) = 6

\* five records of high and medium priority and one of low priority, kept
C27_WitnessKept ==
  /\ pc = "done"
  /\ Cardinality({i \in 1..6 : C27_Below(C27_MainKeys[i])}) = 5
  /\ \E n \in 1..3 :
       /\ C27_Below(C27_LowPriorityKeys[n])
       /\ C27_HasRecord(C27_LowPriorityKeys[n])
       /\ C27_Preceding(n) = 5
  /\ Len(out_health.recommendations) = 6

\* the step that goes with the record of a sub-score
C28_Step(k) ==
  CASE k = "cadence" -> "Plan a 2-week schedule of 3-7 posts per week."
    [] k = "shareability" ->
         "Publish one framework/list post and one strong-opinion post weekly."
    [] k = "conversation_balance" -> "Reply to 3-5 posts in your niche each week."
    [] k = "topic_focus" -> "Commit to 2-3 core themes for the next 10 posts."
    [] k = "format_fit" -> "Keep single tweets in the 100-200 character range."

C28_Keys ==
  {"cadence", "shareability", "conversation_balance", "topic_focus", "format_fit"}

\* the number of steps that are generated: one for each of the five scores
\* below 0.7 and one for the best hours
C28_Generated ==
  Cardinality({k \in C28_Keys : out_health.scores[k] < Dec(7, 10)})
    + (IF out_health.metrics.best_posting_hours # <<>> THEN 1 ELSE 0)

\* C28: in every ProfileHealthResult, when recommendations holds the record of
\* cadence, shareability, conversation_balance, topic_focus or format_fit,
\* steps holds the step that goes with it; the cap of 6 on the steps removes
\* none, because at most 6 steps are generated.
C28_RecordHasStep ==
  (pc = "done" /\ out_health # NoHealth) =>
    /\ \A k \in C28_Keys :
         C27_HasRecord(k) => C28_Step(k) \in Elems(out_health.steps)
    /\ C28_Generated <= 6
    /\ Len(out_health.steps) = C28_Generated

\* all five records and all six steps in one result
C28_Witness ==
  /\ pc = "done"
  /\ \A k \in C28_Keys : C27_HasRecord(k)
  /\ \A k \in C28_Keys : C28_Step(k) \in Elems(out_health.steps)
  /\ Len(out_health.steps) = 6

\* a step without its record: a score from 0.6 to below 0.7
C28_WitnessStepOnly ==
  /\ pc = "done"
  /\ \E k \in C28_Keys :
       /\ ~C27_HasRecord(k)
       /\ out_health.scores[k] >= Dec(6, 10)
       /\ C28_Step(k) \in Elems(out_health.steps)

(***************************************************************************)
(* Properties of TwitterAPIClient._fetch_tweets_with_pagination            *)
(***************************************************************************)
\* the requests the loop of _fetch_tweets_with_pagination has made
C29_PageRequests == SelectSeq(requests, LAMBDA request : request.by = "page")

\* what bounds the turns still to come: the retry not yet taken, and the
\* attempts left
C29_Measure ==
  (IF include_replies THEN 0 ELSE 1) + (MAX_PAGINATION_ATTEMPTS - attempt)

\* a step that makes a request of the loop
C29_Requests == pc = "fetch" /\ Len(requests') = Len(requests) + 1

\* the step is the retry with replies: the loop goes on with the same attempt
C29_IsRetry == C29_Requests /\ pc' = "fetch" /\ attempt' = attempt

\* the retry: it is the first request, without replies, its page is empty,
\* and from then on replies are included
C29_RetryIsFirstAndEmpty ==
  /\ requests = <<>>
  /\ ~include_replies
  /\ include_replies'
  /\ requests'[1].got = "empty"
  /\ cursor' = ""
  /\ all_tweets' = all_tweets

\* any other turn stops the loop or advances the attempt counter
C29_StopsOrAdvances == pc' # "fetch" \/ attempt' = attempt + 1

\* what _fetch_tweets_with_pagination returns once its loop is left
C29_Fetched == Take(all_tweets, in_client.max_results)

\* C29: whatever the pages of the API hold, _fetch_tweets_with_pagination
\* makes at most MAX_PAGINATION_ATTEMPTS + 1 = 11 requests and ends: a turn of
\* its loop that makes a request is the retry with replies only as the first
\* request and only when that page is empty, every other turn leaves the loop
\* or adds one to attempt, every turn that stays in the loop lowers a measure
\* that is never negative, and the list returned has at most max_results
\* tweets.
C29_Turn ==
  /\ C29_Requests =>
       /\ Len(C29_PageRequests') <= MAX_PAGINATION_ATTEMPTS + 1
       /\ IF C29_IsRetry THEN C29_RetryIsFirstAndEmpty ELSE C29_StopsOrAdvances
       /\ pc' = "fetch" => C29_Measure' < C29_Measure /\ C29_Measure' >= 0
  /\ pc = "fetched" =>
       /\ Len(C29_Fetched) <= in_client.max_results
       /\ out_tweets'.status = "returned" => out_tweets'.tweets = C29_Fetched

C29_PaginationEnds == [][C29_Turn]_vars

\* eleven requests were made, the first one repeated with replies, and the
\* tweets of the pages are returned
C29_Witness ==
  /\ pc = "done"
  /\ out_tweets.status = "returned"
  /\ Len(C29_PageRequests) = MAX_PAGINATION_ATTEMPTS + 1
  /\ requests[1].got = "empty" /\ requests[2].attempt = 0
  /\ requests[2].includeReplies
  /\ attempt = MAX_PAGINATION_ATTEMPTS

\* the last page brought more tweets than were asked for, and the list
\* returned is cut to max_results
C29_WitnessCut ==
  /\ pc = "done"
  /\ out_tweets.status = "returned"
  /\ Len(all_tweets) > in_client.max_results
  /\ Len(out_tweets.tweets) = in_client.max_results

(***************************************************************************)
(* Properties of TwitterAPIClient.get_user_tweets                          *)
(***************************************************************************)
\* C30: get_user_tweets(username, max_results) never returns more than
\* max_results tweets, from the cache (with or without prefer_cache_only) or
\* from the API; with prefer_cache_only it makes no request to the API and
\* returns the empty list when the cache has no usable entry.
C30_AtMostMaxResults ==
  /\ out_tweets.status = "returned" =>
       Len(out_tweets.tweets) <= in_client.max_results
  /\ in_client.prefer_cache_only =>
       /\ requests = <<>>
       /\ pc = "done" /\ ~AnswersFromCache(in_client, cache_file) =>
            out_tweets = Returned(<<>>)

\* the part that holds: prefer_cache_only makes no request and answers with
\* the empty list without cached tweets, and every answer that is not the
\* whole cache of a prefer_cache_only call has at most max_results tweets
C30_CacheOnlyMakesNoRequest ==
  /\ in_client.prefer_cache_only =>
       /\ requests = <<>>
       /\ pc = "done" /\ ~AnswersFromCache(in_client, cache_file) =>
            out_tweets = Returned(<<>>)
  /\ out_tweets.status = "returned" /\ ~in_client.prefer_cache_only =>
       Len(out_tweets.tweets) <= in_client.max_results

\* a prefer_cache_only call answered with more cached tweets than max_results
C30_MoreThanAsked ==
  /\ pc = "done"
  /\ in_client.prefer_cache_only
  /\ in_client.max_results = 5
  /\ out_tweets = Returned(RawTweets(100, 6))

====
